---- MODULE Spec2Model ----
(***************************************************************************)
(* A model of the CSIS616 programs: the regular-expression-to-NFA compiler *)
(* and simulator (CSIS616_Project) and the DFA simulator (program 3).      *)
(* Characters are one-character strings; a Vec<char> is a sequence of them.*)
(***************************************************************************)
EXTENDS Integers, Sequences, FiniteSets, TLC

\* ------------------------------------------------------------------ bounds
\* Longest regular expression drawn exhaustively over RegExChars.
MaxLen == 4
\* Longest input string drawn exhaustively over InputChars.
MaxInput == 3
\* Longest single-symbol chain / input of repeated symbols that is drawn.
MaxChain == 10

\* ------------------------------------------------------------ characters
Letters ==
    {"a","b","c","d","e","f","g","h","i","j","k","l","m",
     "n","o","p","q","r","s","t","u","v","w","x","y","z"}

Digits == {"0","1","2","3","4","5","6","7","8","9"}

\* accepted_chars of check_reg_ex_chars
accepted_chars == Letters \cup Digits \cup {"*", "|", "(", ")", " "}

first_reject_chars == {")", "|", "*", " "}

front_or_reject == {"*", "|", ")"}

end_reject == {"(", "|"}

\* non_alphabet_chars of get_alphabet
non_alphabet_chars == {"(", ")", "|", "*", " "}

\* the `symbols` vector "()|* " of the builder functions
symbols == {"(", ")", "|", "*", " "}

\* ------------------------------------------------------------ Vec helpers
\* Vec::pop: removes the last element, does nothing on an empty vector
Pop(v) == IF Len(v) = 0 THEN v ELSE SubSeq(v, 1, Len(v) - 1)

\* one decimal digit as a char
DigitChar(d) ==
    CASE d = 0 -> "0" [] d = 1 -> "1" [] d = 2 -> "2" [] d = 3 -> "3"
      [] d = 4 -> "4" [] d = 5 -> "5" [] d = 6 -> "6" [] d = 7 -> "7"
      [] d = 8 -> "8" [] d = 9 -> "9"

\* format!("{}", n).chars() for a usize n
RECURSIVE DecChars(_)
DecChars(n) ==
    IF n < 10 THEN <<DigitChar(n)>>
    ELSE Append(DecChars(n \div 10), DigitChar(n % 10))

\* ------------------------------------------------------- check_reg_ex_chars
\* the stack of the parentheses scan, after the characters i..Len(reg_ex)
RECURSIVE GuardStack(_, _, _)
GuardStack(reg_ex, i, p_stack) ==
    IF i > Len(reg_ex) THEN p_stack
    ELSE IF reg_ex[i] = "(" THEN GuardStack(reg_ex, i + 1, Append(p_stack, "("))
    ELSE IF reg_ex[i] = ")" THEN GuardStack(reg_ex, i + 1, Pop(p_stack))
    ELSE GuardStack(reg_ex, i + 1, p_stack)

FirstCharRejected(reg_ex) == reg_ex[1] \in first_reject_chars

BadCharacter(reg_ex) == \E i \in 1..Len(reg_ex) : reg_ex[i] \notin accepted_chars

FrontOrRejected(reg_ex) ==
    \E i \in 1..(Len(reg_ex) - 1) :
        /\ reg_ex[i] \in {"(", "|"}
        /\ reg_ex[i + 1] \in front_or_reject

\* the star check as it would be if it also took '|' after '*' for an error
StarRejected_AlsoBeforeBar(reg_ex) ==
    \E i \in 1..(Len(reg_ex) - 1) :
        reg_ex[i] = "*" /\ reg_ex[i + 1] \in {"*", "|"}

StarRejected(reg_ex) ==
    \E i \in 1..(Len(reg_ex) - 1) : reg_ex[i] = "*" /\ reg_ex[i + 1] = "*"

EndRejected(reg_ex) == reg_ex[Len(reg_ex)] \in end_reject

\* the final tests as they would be if only the stack's length were looked at
ParenthesesRejected_LengthOnly(reg_ex) ==
    Len(GuardStack(reg_ex, 1, <<"$">>)) # 1

ParenthesesRejected(reg_ex) ==
    LET p_stack == GuardStack(reg_ex, 1, <<"$">>)
    IN  \/ Len(p_stack) = 0
        \/ p_stack[1] # "$"
        \/ Len(p_stack) > 1

\* TRUE when check_reg_ex_chars returns, FALSE when it exits the process
check_reg_ex_chars(reg_ex) ==
    /\ ~FirstCharRejected(reg_ex)
    /\ ~BadCharacter(reg_ex)
    /\ ~FrontOrRejected(reg_ex)
    /\ ~StarRejected(reg_ex)
    /\ ~EndRejected(reg_ex)
    /\ ~ParenthesesRejected(reg_ex)

\* ------------------------------------------------------------ get_alphabet
RECURSIVE AlphabetFrom(_, _, _)
AlphabetFrom(reg_ex, i, alphabet) ==
    IF i > Len(reg_ex) THEN alphabet
    ELSE IF reg_ex[i] \in non_alphabet_chars THEN AlphabetFrom(reg_ex, i + 1, alphabet)
    ELSE IF \E k \in 1..Len(alphabet) : alphabet[k] = reg_ex[i]
         THEN AlphabetFrom(reg_ex, i + 1, alphabet)
    ELSE AlphabetFrom(reg_ex, i + 1, Append(alphabet, reg_ex[i]))

get_alphabet(reg_ex) == AlphabetFrom(reg_ex, 1, <<>>)

\* ---------------------------------------------------------- parse_original
RECURSIVE ParseFrom(_, _, _, _, _)
ParseFrom(reg_ex, i, expressions, curr_expression, p_stack) ==
    IF i > Len(reg_ex) THEN Append(expressions, curr_expression)
    ELSE IF reg_ex[i] = "("
         THEN ParseFrom(reg_ex, i + 1, expressions,
                        Append(curr_expression, "("), Append(p_stack, "("))
    ELSE IF reg_ex[i] = ")"
         THEN ParseFrom(reg_ex, i + 1, expressions,
                        Append(curr_expression, ")"), Pop(p_stack))
    ELSE IF reg_ex[i] = "|" /\ Len(p_stack) = 0
         THEN ParseFrom(reg_ex, i + 1, Append(expressions, curr_expression),
                        <<>>, p_stack)
    ELSE ParseFrom(reg_ex, i + 1, expressions,
                   Append(curr_expression, reg_ex[i]), p_stack)

parse_original(reg_ex) == ParseFrom(reg_ex, 1, <<>>, <<>>, <<>>)

\* ------------------------------------------------------ simplify_expressions
\* the test `(...)` of simplify_expressions
IsParenEndParen(expression) ==
    expression[1] = "(" /\ expression[Len(expression)] = ")"

\* the test `(...)*` shared by simplify_expressions and the builder functions
IsStarParen(expression) ==
    /\ expression[1] = "("
    /\ expression[Len(expression)] = "*"
    /\ expression[Len(expression) - 1] = ")"

\* the scan retaining every character, parentheses included
StripFrom_KeepsParentheses(expression, i, kept, p_stack) == expression

\* the characters simplify_parentheses_end_parentheses retains
RECURSIVE StripFrom(_, _, _, _)
StripFrom(expression, i, kept, p_stack) ==
    IF i > Len(expression) THEN kept
    ELSE IF expression[i] = "("
         THEN StripFrom(expression, i + 1,
                        IF Len(p_stack) = 0 THEN kept ELSE Append(kept, "("),
                        Append(p_stack, "("))
    ELSE IF expression[i] = ")"
         THEN StripFrom(expression, i + 1,
                        IF Len(p_stack) = 1 THEN kept ELSE Append(kept, ")"),
                        Pop(p_stack))
    ELSE StripFrom(expression, i + 1, Append(kept, expression[i]), p_stack)

\* the scan splitting at every '|', whatever the depth
RECURSIVE StarSplitFrom_SplitsAtEveryBar(_, _, _, _, _)
StarSplitFrom_SplitsAtEveryBar(expression, i, expressions, curr_expression, p_stack) ==
    IF i > Len(expression) THEN Append(expressions, curr_expression)
    ELSE IF expression[i] = "("
         THEN StarSplitFrom_SplitsAtEveryBar(expression, i + 1, expressions,
                            IF Len(p_stack) # 0 THEN Append(curr_expression, "(")
                                                ELSE curr_expression,
                            Append(p_stack, "("))
    ELSE IF expression[i] = ")"
         THEN IF Len(p_stack) = 1
              THEN Append(expressions, curr_expression)
              ELSE StarSplitFrom_SplitsAtEveryBar(expression, i + 1, expressions,
                                 Append(curr_expression, ")"), Pop(p_stack))
    ELSE IF expression[i] = "|"
         THEN StarSplitFrom_SplitsAtEveryBar(expression, i + 1,
                            Append(expressions, curr_expression), <<>>, p_stack)
    ELSE StarSplitFrom_SplitsAtEveryBar(expression, i + 1, expressions,
                       Append(curr_expression, expression[i]), p_stack)

\* the scan of simplify_star_parentheses, up to its break
RECURSIVE StarSplitFrom(_, _, _, _, _)
StarSplitFrom(expression, i, expressions, curr_expression, p_stack) ==
    IF i > Len(expression) THEN Append(expressions, curr_expression)
    ELSE IF expression[i] = "("
         THEN StarSplitFrom(expression, i + 1, expressions,
                            IF Len(p_stack) # 0 THEN Append(curr_expression, "(")
                                                ELSE curr_expression,
                            Append(p_stack, "("))
    ELSE IF expression[i] = ")"
         THEN IF Len(p_stack) = 1
              THEN Append(expressions, curr_expression)
              ELSE StarSplitFrom(expression, i + 1, expressions,
                                 Append(curr_expression, ")"), Pop(p_stack))
    ELSE IF expression[i] = "|" /\ Len(p_stack) = 1
         THEN StarSplitFrom(expression, i + 1, Append(expressions, curr_expression),
                            <<>>, p_stack)
    ELSE StarSplitFrom(expression, i + 1, expressions,
                       Append(curr_expression, expression[i]), p_stack)

\* Wrap without the closing star: "(" item ")"
Wrap_StarForgotten(item) == <<"(">> \o item \o <<")">>

\* "(" item ")*"
Wrap(item) == <<"(">> \o item \o <<")", "*">>

RECURSIVE simplify_expressions(_)
RECURSIVE simplify_parentheses_end_parentheses(_)
RECURSIVE simplify_star_parentheses(_)
RECURSIVE RetainedFrom(_, _)
RECURSIVE NewFrom(_, _)

\* the expressions for which bool_retain is true, in order
RetainedFrom(expressions, i) ==
    IF i > Len(expressions) THEN <<>>
    ELSE IF IsParenEndParen(expressions[i]) \/ IsStarParen(expressions[i])
         THEN RetainedFrom(expressions, i + 1)
    ELSE <<expressions[i]>> \o RetainedFrom(expressions, i + 1)

\* new_expressions, in order
NewFrom(expressions, i) ==
    IF i > Len(expressions) THEN <<>>
    ELSE IF IsParenEndParen(expressions[i])
         THEN simplify_parentheses_end_parentheses(expressions[i])
                 \o NewFrom(expressions, i + 1)
    ELSE IF IsStarParen(expressions[i])
         THEN simplify_star_parentheses(expressions[i]) \o NewFrom(expressions, i + 1)
    ELSE NewFrom(expressions, i + 1)

simplify_expressions(expressions) ==
    RetainedFrom(expressions, 1) \o NewFrom(expressions, 1)

simplify_parentheses_end_parentheses(expression) ==
    simplify_expressions(parse_original(StripFrom(expression, 1, <<>>, <<>>)))

simplify_star_parentheses(expression) ==
    LET expressions == simplify_expressions(StarSplitFrom(expression, 1, <<>>, <<>>, <<>>))
    IN  [k \in 1..Len(expressions) |-> Wrap(expressions[k])]

\* ---------------------------------------------------------------- get_states
\* the number of characters of the expressions that are not in `symbols`
RECURSIVE CountStateChars(_, _)
CountStateChars(expression, i) ==
    IF i > Len(expression) THEN 0
    ELSE (IF expression[i] \in symbols THEN 0 ELSE 1) + CountStateChars(expression, i + 1)

RECURSIVE CountAllStateChars(_, _)
CountAllStateChars(expressions, k) ==
    IF k > Len(expressions) THEN 0
    ELSE CountStateChars(expressions[k], 1) + CountAllStateChars(expressions, k + 1)

get_states(expressions) ==
    [k \in 1..(1 + CountAllStateChars(expressions, 1)) |-> k]

\* ----------------------------------------------------------- get_transitions
\* Each builder loop returns [t |-> the transitions pushed, n |-> the counter].

\* the loop `for i in 2..expression.len()` of the (...)* branch (i is 1-relative here)
RECURSIVE StarTransitions(_, _, _, _)
StarTransitions(expression, i, n, p_stack) ==
    IF i > Len(expression) THEN [t |-> <<>>, n |-> n]
    ELSE IF Len(p_stack) = 0 /\ expression[i] = "*"
         THEN LET r == StarTransitions(expression, i + 1, n, p_stack)
              IN  [t |-> <<<<n - 1, 1>>>> \o r.t, n |-> r.n]
    ELSE IF expression[i] = "("
         THEN StarTransitions(expression, i + 1, n, Append(p_stack, "("))
    ELSE IF expression[i] = ")"
         THEN StarTransitions(expression, i + 1, n, Pop(p_stack))
    ELSE IF Len(p_stack) # 0 /\ expression[i] = "*"
         THEN LET r == StarTransitions(expression, i + 1, n, p_stack)
              IN  [t |-> <<<<n - 1, n - 1>>>> \o r.t, n |-> r.n]
    ELSE LET r == StarTransitions(expression, i + 1, n + 1, p_stack)
         IN  [t |-> <<<<n - 1, n>>>> \o r.t, n |-> r.n]

\* the loop `for i in 1..expression.len()` of the plain branch
RECURSIVE PlainTransitions(_, _, _)
PlainTransitions(expression, i, n) ==
    IF i > Len(expression) THEN [t |-> <<>>, n |-> n]
    ELSE IF expression[i] = "*"
         THEN LET r == PlainTransitions(expression, i + 1, n)
              IN  [t |-> <<<<n - 1, n - 1>>>> \o r.t, n |-> r.n]
    ELSE LET r == PlainTransitions(expression, i + 1, n + 1)
         IN  [t |-> <<<<n - 1, n>>>> \o r.t, n |-> r.n]

\* ExpressionTransitions with the state counter not carried on to the next
\* expression, so that every chain allocates from the same state again
ExpressionTransitions_CounterNotCarried(expression, n) ==
    LET r == IF IsStarParen(expression)
             THEN StarTransitions(expression, 3, n + 1, <<"(">>)
             ELSE PlainTransitions(expression, 2, n + 1)
    IN  [t |-> <<<<1, n>>>> \o r.t, n |-> n]

\* the transitions one expression contributes, with the counter n on entry
ExpressionTransitions(expression, n) ==
    LET r == IF IsStarParen(expression)
             THEN StarTransitions(expression, 3, n + 1, <<"(">>)
             ELSE PlainTransitions(expression, 2, n + 1)
    IN  [t |-> <<<<1, n>>>> \o r.t, n |-> r.n]

RECURSIVE TransitionsFrom(_, _, _)
TransitionsFrom(expressions, k, n) ==
    IF k > Len(expressions) THEN <<>>
    ELSE LET r == ExpressionTransitions(expressions[k], n)
         IN  r.t \o TransitionsFrom(expressions, k + 1, r.n)

get_transitions(expressions) == TransitionsFrom(expressions, 1, 2)

\* ---------------------------------------------------- get_transition_symbols
\* begin_chars: the first symbol of each expression
BeginChars(expressions) ==
    [k \in 1..Len(expressions) |->
        IF IsStarParen(expressions[k]) THEN expressions[k][2] ELSE expressions[k][1]]

RECURSIVE StarSymbols(_, _, _, _)
StarSymbols(expression, i, begin_chars, p_stack) ==
    IF i > Len(expression) THEN <<>>
    ELSE IF Len(p_stack) = 0 /\ expression[i] = "*"
         THEN <<begin_chars>> \o StarSymbols(expression, i + 1, begin_chars, p_stack)
    ELSE IF expression[i] = "("
         THEN StarSymbols(expression, i + 1, begin_chars, Append(p_stack, "("))
    ELSE IF expression[i] = ")"
         THEN StarSymbols(expression, i + 1, begin_chars, Pop(p_stack))
    ELSE IF Len(p_stack) # 0 /\ expression[i] = "*"
         THEN <<<<expression[i - 1]>>>> \o StarSymbols(expression, i + 1, begin_chars, p_stack)
    ELSE <<<<expression[i]>>>> \o StarSymbols(expression, i + 1, begin_chars, p_stack)

\* PlainSymbols with no symbol list pushed for a '*'
RECURSIVE PlainSymbols_StarSkipped(_, _)
PlainSymbols_StarSkipped(expression, i) ==
    IF i > Len(expression) THEN <<>>
    ELSE IF expression[i] = "*"
         THEN PlainSymbols_StarSkipped(expression, i + 1)
    ELSE <<<<expression[i]>>>> \o PlainSymbols_StarSkipped(expression, i + 1)

RECURSIVE PlainSymbols(_, _)
PlainSymbols(expression, i) ==
    IF i > Len(expression) THEN <<>>
    ELSE IF expression[i] = "*"
         THEN <<<<expression[i - 1]>>>> \o PlainSymbols(expression, i + 1)
    ELSE <<<<expression[i]>>>> \o PlainSymbols(expression, i + 1)

\* the symbol lists one expression contributes
ExpressionSymbols(expression, begin_chars) ==
    IF IsStarParen(expression)
    THEN <<<<expression[2]>>>> \o StarSymbols(expression, 3, begin_chars, <<>>)
    ELSE <<<<expression[1]>>>> \o PlainSymbols(expression, 2)

RECURSIVE SymbolsFrom(_, _, _)
SymbolsFrom(expressions, k, begin_chars) ==
    IF k > Len(expressions) THEN <<>>
    ELSE ExpressionSymbols(expressions[k], begin_chars)
            \o SymbolsFrom(expressions, k + 1, begin_chars)

get_transition_symbols(expressions) ==
    SymbolsFrom(expressions, 1, BeginChars(expressions))

\* --------------------------------------------------------- get_accept_states
\* accept_states before the sort and dedup, with the counter n on entry
RECURSIVE AcceptFrom(_, _, _)
AcceptFrom(expressions, k, n) ==
    IF k > Len(expressions) THEN <<>>
    ELSE LET m == n + CountStateChars(expressions[k], 1)
         IN  (IF IsStarParen(expressions[k]) THEN <<1, m - 1>> ELSE <<m - 1>>)
                \o AcceptFrom(expressions, k + 1, m)

\* Vec::sort followed by Vec::dedup: the distinct values in increasing order
RECURSIVE SortedSeq(_)
SortedSeq(S) ==
    IF S = {} THEN <<>>
    ELSE LET lo == CHOOSE x \in S : \A y \in S : x <= y
         IN  <<lo>> \o SortedSeq(S \ {lo})

get_accept_states(expressions) ==
    LET accept_states == AcceptFrom(expressions, 1, 2)
    IN  SortedSeq({accept_states[k] : k \in 1..Len(accept_states)})

\* -------------------------------------------------------------- check_string
\* transition_vec: one char vector "{from}{to}{symbol}" per (transition, symbol)
RECURSIVE SymbolEntries(_, _, _)
SymbolEntries(transition, syms, j) ==
    IF j > Len(syms) THEN <<>>
    ELSE <<DecChars(transition[1]) \o DecChars(transition[2]) \o <<syms[j]>>>>
            \o SymbolEntries(transition, syms, j + 1)

RECURSIVE TransitionVecFrom(_, _, _)
TransitionVecFrom(transitions, transition_symbols, i) ==
    IF i > Len(transitions) THEN <<>>
    ELSE SymbolEntries(transitions[i], transition_symbols[i], 1)
            \o TransitionVecFrom(transitions, transition_symbols, i + 1)

TransitionVec(transitions, transition_symbols) ==
    TransitionVecFrom(transitions, transition_symbols, 1)

\* the inner loop `for i in 0..transition_vec.len()` for one letter:
\* [curr |-> curr_state[0] after the loop, fired |-> the trace entries pushed]
RECURSIVE ScanLetter(_, _, _, _)
ScanLetter(transition_vec, i, curr, letter) ==
    IF i > Len(transition_vec) THEN [curr |-> curr, fired |-> <<>>]
    ELSE LET tv == transition_vec[i]
             c1 == IF curr = tv[1] /\ tv[2] = "1" THEN tv[2] ELSE curr
         IN  IF c1 = tv[1] /\ letter = tv[3]
             THEN [curr |-> tv[2], fired |-> <<<<tv[1], tv[3], tv[2]>>>>]
             ELSE ScanLetter(transition_vec, i + 1, c1, letter)

\* the outer loop `for letter in &input_as_chars`
RECURSIVE RunLetters(_, _, _, _, _)
RunLetters(transition_vec, input, k, curr, transition_count) ==
    IF k > Len(input) THEN [curr |-> curr, transition_count |-> transition_count]
    ELSE LET r == ScanLetter(transition_vec, 1, curr, input[k])
         IN  RunLetters(transition_vec, input, k + 1, r.curr, transition_count \o r.fired)

\* string_in_accept: compares curr_state[0] with the first char of each accept state
StringInAccept(curr, accept) ==
    \E k \in 1..Len(accept) : curr = DecChars(accept[k])[1]

\* [verdict |-> the value returned, transition_count, curr |-> curr_state[0] at the end]
check_string(transitions, transition_symbols, accept, input) ==
    LET r == RunLetters(TransitionVec(transitions, transition_symbols), input, 1, "1", <<>>)
    IN  [verdict |-> StringInAccept(r.curr, accept)
                        /\ Len(r.transition_count) = Len(input),
         transition_count |-> r.transition_count,
         curr |-> r.curr]

\* ------------------------------------------------------ check_input_alphabet
\* TRUE when check_input_alphabet returns, FALSE when it exits the process
\* check_input_alphabet as it would be if it returned after the first letter
check_input_alphabet_FirstLetterOnly(alphabet, s) ==
    Len(s) = 0 \/ \E j \in 1..Len(alphabet) : s[1] = alphabet[j]

check_input_alphabet(alphabet, s) ==
    \A k \in 1..Len(s) : \E j \in 1..Len(alphabet) : s[k] = alphabet[j]

\* ------------------------------------------------------------ write_graphviz
\* One tuple per println!: the statement kind and the values formatted into it.
RECURSIVE EdgeLines(_, _, _)
EdgeLines(transition, syms, n) ==
    IF n > Len(syms) THEN <<>>
    ELSE <<<<"edge", transition[1], transition[2], syms[n]>>>>
            \o EdgeLines(transition, syms, n + 1)

RECURSIVE AllEdgeLines(_, _, _)
AllEdgeLines(transitions, transition_symbols, i) ==
    IF i > Len(transitions) THEN <<>>
    ELSE EdgeLines(transitions[i], transition_symbols[i], 1)
            \o AllEdgeLines(transitions, transition_symbols, i + 1)

write_graphviz(start, accept, transitions, transition_symbols) ==
    <<<<"digraph {">>, <<"rankdir=LR;">>, <<"node [shape=point]; start;">>>>
        \o [k \in 1..Len(accept) |-> <<"node [shape = doublecircle];", accept[k]>>]
        \o <<<<"node [shape=circle];">>, <<"start ->", start>>>>
        \o AllEdgeLines(transitions, transition_symbols, 1)
        \o <<<<"}">>>>

\* ===================================================== the regex program
\* main of CSIS616_Project, one action per call it makes.
VARIABLES
    pc,                 \* the statement of main that runs next
    reg_ex,             \* the trimmed expression, as chars
    alphabet,
    expressions,
    states,
    transitions,
    accept_states,
    transition_symbols,
    stdout,             \* the graph lines written so far
    str_input,          \* the string to test
    pos,                \* the number of letters check_string has processed
    transition_count,   \* the trace entries check_string pushed
    curr_state,         \* curr_state[0] when check_string ends
    accept              \* the value check_string returned

\* the start state main gives the NFA
start == 1

nfa_vars == <<alphabet, expressions, states, transitions, accept_states,
              transition_symbols>>
run_vars == <<str_input, pos, transition_count, curr_state, accept>>
regex_vars == <<pc, reg_ex, nfa_vars, stdout, run_vars>>

\* the variables of the DFA program (CSIS616_program3), described with it below
VARIABLES
    pc3,            \* the statement of main that runs next
    dfa,            \* the description: alphabet, start, accept, transitions
    state_graph,    \* start_state and states (accept_state, transitions), 0 relative
    stdout3,        \* the graph lines written
    str_input3,     \* the string to test
    pos3,           \* the number of letters check_string has processed
    curr_state3,    \* curr_state, a String
    trace3,         \* the "d(q, c) -> q" lines printed, as (from, letter, to)
    accept3         \* the value check_string returned

dfa_vars == <<pc3, dfa, state_graph, stdout3, str_input3, pos3, curr_state3,
              trace3, accept3>>

\* the variables of the PDA program (CSIS616_program4), described with it below
VARIABLES
    pc4,            \* the statement of main that runs next
    pda,            \* the description: alphabet, start, accept, transitions
    state_graph4,   \* alphabet, start_state and states (accept_state, transitions)
    stdout4         \* the graph lines written

pda_vars == <<pc4, pda, state_graph4, stdout4>>

\* the variables of the DFA graph program (CSIS616_program2)
VARIABLES
    pc2,            \* the statement of main that runs next
    dfa2,           \* the description, with n_states and states as computed
    nodes,          \* Graph.nodes, one entry per format!
    distructure,    \* Graph.distructure, the pieces pushed onto the text
    stdout2         \* the pieces written by write_structure

hw2_vars == <<pc2, dfa2, nodes, distructure, stdout2>>

\* the variables of the node list program (CSIS616_program1)
VARIABLES
    pc1,            \* the statement of main that runs next
    node_names,     \* the argument's chars, commas being removed
    n1,             \* n, the length the comma loop scans
    f1,             \* f, set when a scan met no comma
    digraph_txt,    \* the pieces pushed onto the text
    stdout1         \* the pieces written by write_all

hw1_vars == <<pc1, node_names, n1, f1, digraph_txt, stdout1>>

\* what a step of one program leaves alone: the variables of the other programs
not_regex_vars == <<dfa_vars, pda_vars, hw2_vars, hw1_vars>>
not_dfa_vars == <<regex_vars, pda_vars, hw2_vars, hw1_vars>>
not_pda_vars == <<regex_vars, dfa_vars, hw2_vars, hw1_vars>>
not_hw2_vars == <<regex_vars, dfa_vars, pda_vars, hw1_vars>>
not_hw1_vars == <<regex_vars, dfa_vars, pda_vars, hw2_vars>>

\* ------------------------------------------------------------------ inputs
\* the characters expressions are drawn from exhaustively
RegExChars == {"a", "b", "(", ")", "|", "*", " "}

\* the characters input strings are drawn from exhaustively
InputChars == {"a", "b"}

SeqsUpTo(S, n) == UNION {[1..k -> S] : k \in 0..n}

\* k copies of the character c
Repeat(c, k) == [i \in 1..k |-> c]

\* longer expressions, one per shape the short ones cannot reach
LongRegExes ==
    { <<"(","a",")","*","|","(","b",")">>,              \* (a)*|(b)
      <<"(","a","b",")","*">>,                          \* (ab)*
      <<"(","a","|","b",")","*">>,                      \* (a|b)*
      <<"(","a",")","*","(","b",")","*">>,              \* (a)*(b)*
      <<"(","a",")","*","b","|","a">>,                  \* (a)*b|a
      <<"a"," ","b","|","(","a",")","*">>,              \* a b|(a)*
      <<"(","a","b","*",")","*","|","b">>,              \* (ab*)*|b
      <<"(","a","|","b",")","(","b","|","a",")">>,      \* (a|b)(b|a)
      <<"a","b","|","a","a","|","b","*","a">>,          \* ab|aa|b*a
      <<"a"," ","b","|","a">>,                          \* a b|a
      <<"b">> \o Repeat("a", 7) \o <<"|","a","b","|","a","b">>,  \* baaaaaaa|ab|ab
      <<"a", "#">>,                                     \* a#
      <<"A", "b">>,                                     \* Ab
      <<"(","(","a",")","|","b",")","*">>,              \* ((a)|b)*
      <<"(","(","a",")",")">>,                          \* ((a))
      <<"(","a","(","b","|","a",")",")","*">> }         \* (a(b|a))*

\* what line 72 of main can leave in reg_ex: trim_end removes trailing spaces
RegExInputs ==
    {e \in SeqsUpTo(RegExChars, MaxLen) : Len(e) = 0 \/ e[Len(e)] # " "}
        \cup {Repeat("a", k) : k \in 1..MaxChain}
        \cup LongRegExes

\* the lines a user can type at "Please enter a string:"
StringInputs ==
    SeqsUpTo(InputChars, MaxInput) \cup {Repeat("a", k) : k \in 0..(MaxChain + 1)}

\* ------------------------------------------------------------------- actions
RegExInit ==
    /\ pc = "check_reg_ex_chars"
    /\ reg_ex \in RegExInputs
    /\ alphabet = <<>>
    /\ expressions = <<>>
    /\ states = <<>>
    /\ transitions = <<>>
    /\ accept_states = <<>>
    /\ transition_symbols = <<>>
    /\ stdout = <<>>
    /\ str_input = <<>>
    /\ pos = 0
    /\ transition_count = <<>>
    /\ curr_state = "1"
    /\ accept = FALSE

\* main line 75 as it would be if a rejection printed its error and returned
CheckRegExChars_ContinuesAfterRejection ==
    /\ UNCHANGED not_regex_vars
    /\ pc = "check_reg_ex_chars"
    /\ pc' = IF Len(reg_ex) = 0 THEN "panic" ELSE "get_alphabet"
    /\ UNCHANGED <<reg_ex, nfa_vars, stdout, run_vars>>

\* main line 75; reg_ex[0] panics on an empty expression, a rejection exits
CheckRegExChars ==
    /\ UNCHANGED not_regex_vars
    /\ pc = "check_reg_ex_chars"
    /\ pc' = IF Len(reg_ex) = 0 THEN "panic"
             ELSE IF check_reg_ex_chars(reg_ex) THEN "get_alphabet"
             ELSE "exit"
    /\ UNCHANGED <<reg_ex, nfa_vars, stdout, run_vars>>

\* main line 78
GetAlphabet ==
    /\ UNCHANGED not_regex_vars
    /\ pc = "get_alphabet"
    /\ alphabet' = get_alphabet(reg_ex)
    /\ pc' = "parse_original"
    /\ UNCHANGED <<reg_ex, expressions, states, transitions, accept_states,
                   transition_symbols, stdout, run_vars>>

\* main line 81
ParseOriginal ==
    /\ UNCHANGED not_regex_vars
    /\ pc = "parse_original"
    /\ expressions' = parse_original(reg_ex)
    /\ pc' = "simplify_expressions"
    /\ UNCHANGED <<reg_ex, alphabet, states, transitions, accept_states,
                   transition_symbols, stdout, run_vars>>

\* main line 84
SimplifyExpressions ==
    /\ UNCHANGED not_regex_vars
    /\ pc = "simplify_expressions"
    /\ expressions' = simplify_expressions(expressions)
    /\ pc' = "get_states"
    /\ UNCHANGED <<reg_ex, alphabet, states, transitions, accept_states,
                   transition_symbols, stdout, run_vars>>

\* main line 87
GetStates ==
    /\ UNCHANGED not_regex_vars
    /\ pc = "get_states"
    /\ states' = get_states(expressions)
    /\ pc' = "get_transitions"
    /\ UNCHANGED <<reg_ex, alphabet, expressions, transitions, accept_states,
                   transition_symbols, stdout, run_vars>>

\* main line 93
GetTransitions ==
    /\ UNCHANGED not_regex_vars
    /\ pc = "get_transitions"
    /\ transitions' = get_transitions(expressions)
    /\ pc' = "get_accept_states"
    /\ UNCHANGED <<reg_ex, alphabet, expressions, states, accept_states,
                   transition_symbols, stdout, run_vars>>

\* main line 96
GetAcceptStates ==
    /\ UNCHANGED not_regex_vars
    /\ pc = "get_accept_states"
    /\ accept_states' = get_accept_states(expressions)
    /\ pc' = "get_transition_symbols"
    /\ UNCHANGED <<reg_ex, alphabet, expressions, states, transitions,
                   transition_symbols, stdout, run_vars>>

\* main line 99
GetTransitionSymbols ==
    /\ UNCHANGED not_regex_vars
    /\ pc = "get_transition_symbols"
    /\ transition_symbols' = get_transition_symbols(expressions)
    /\ pc' = "write_graphviz"
    /\ UNCHANGED <<reg_ex, alphabet, expressions, states, transitions,
                   accept_states, stdout, run_vars>>

\* main line 148
WriteGraphviz ==
    /\ UNCHANGED not_regex_vars
    /\ pc = "write_graphviz"
    /\ stdout' = write_graphviz(start, accept_states, transitions, transition_symbols)
    /\ pc' = "read_input"
    /\ UNCHANGED <<reg_ex, nfa_vars, run_vars>>

\* main lines 151-153
ReadInput ==
    /\ UNCHANGED not_regex_vars
    /\ pc = "read_input"
    /\ \E s \in StringInputs : str_input' = s
    /\ pc' = "check_input_alphabet"
    /\ UNCHANGED <<reg_ex, nfa_vars, stdout, pos, transition_count, curr_state, accept>>

\* main line 157
CheckInputAlphabet ==
    /\ UNCHANGED not_regex_vars
    /\ pc = "check_input_alphabet"
    /\ pc' = IF check_input_alphabet(alphabet, str_input) THEN "check_string" ELSE "exit"
    /\ UNCHANGED <<reg_ex, nfa_vars, stdout, run_vars>>

\* main line 160, check_string lines 826-841: one pass of the loop over the letters
CheckStringLetter ==
    /\ UNCHANGED not_regex_vars
    /\ pc = "check_string"
    /\ pos < Len(str_input)
    /\ LET r == ScanLetter(TransitionVec(transitions, transition_symbols), 1,
                           curr_state, str_input[pos + 1])
       IN  /\ curr_state' = r.curr
           /\ transition_count' = transition_count \o r.fired
    /\ pos' = pos + 1
    /\ UNCHANGED <<pc, reg_ex, nfa_vars, stdout, str_input, accept>>

\* check_string lines 843-861: the verdict, returned to main
CheckStringReturn ==
    /\ UNCHANGED not_regex_vars
    /\ pc = "check_string"
    /\ pos = Len(str_input)
    /\ accept' = (StringInAccept(curr_state, accept_states)
                    /\ Len(transition_count) = Len(str_input))
    /\ pc' = "done"
    /\ UNCHANGED <<reg_ex, nfa_vars, stdout, str_input, pos, transition_count, curr_state>>

RegExNext ==
    \/ CheckRegExChars
    \/ GetAlphabet
    \/ ParseOriginal
    \/ SimplifyExpressions
    \/ GetStates
    \/ GetTransitions
    \/ GetAcceptStates
    \/ GetTransitionSymbols
    \/ WriteGraphviz
    \/ ReadInput
    \/ CheckInputAlphabet
    \/ CheckStringLetter
    \/ CheckStringReturn

\* ======================================================= the DFA program
\* main of CSIS616_program3: a DFA description is loaded, validated, turned
\* into a state graph, written out and run on an input string.
\* usize arithmetic: the model only ever steps 1 below 0, so usize::MAX is
\* written -1 and x + 1, x - 1 are the wrapping operations of a release build.

\* the largest number of transition rows of a description
MaxStates == 2

\* ---------------------------------------------------------------- validate
\* "ok" for Ok(()), otherwise the kind of the first Err returned
validate(d) ==
    IF \E r \in 1..Len(d.transitions) : Len(d.transitions[r]) # Len(d.alphabet)
    THEN "columns"
    ELSE IF \E r \in 1..Len(d.transitions) :
              \E c \in 1..Len(d.transitions[r]) :
                  d.transitions[r][c] > Len(d.transitions)
    THEN "transition"
    ELSE IF d.start > Len(d.transitions) THEN "start"
    ELSE IF \E k \in 1..Len(d.accept) : d.accept[k] > Len(d.transitions) THEN "accept"
    ELSE "ok"

\* ------------------------------------------------------------ new_from_dfa
\* some `x - 1` of new_from_dfa is computed on 0
SubtractsFromZero(d) ==
    \/ d.start = 0
    \/ \E r \in 1..Len(d.transitions) :
          \E c \in 1..Len(d.transitions[r]) : d.transitions[r][c] = 0
    \/ \E k \in 1..Len(d.accept) : d.accept[k] = 0

\* graph.states[*astate - 1] is indexed out of range
AcceptIndexOutOfRange(d) ==
    \E k \in 1..Len(d.accept) :
        d.accept[k] - 1 < 0 \/ d.accept[k] - 1 >= Len(d.transitions)

\* the graph new_from_dfa returns when it does not panic
new_from_dfa(d) ==
    [alphabet |-> d.alphabet,
     start_state |-> d.start - 1,
     states |-> [r \in 1..Len(d.transitions) |->
                    [accept_state |-> \E k \in 1..Len(d.accept) : d.accept[k] = r,
                     transitions |-> [c \in 1..Len(d.transitions[r]) |->
                                         d.transitions[r][c] - 1]]]]

\* ---------------------------------------------------------- write_graphviz
RECURSIVE DfaEdgeLines(_, _, _)
DfaEdgeLines(g, n, i) ==
    IF n > Len(g.states) THEN <<>>
    ELSE IF i > Len(g.alphabet) THEN DfaEdgeLines(g, n + 1, 1)
    ELSE <<<<"edge", n, g.states[n].transitions[i] + 1, g.alphabet[i]>>>>
            \o DfaEdgeLines(g, n, i + 1)

RECURSIVE DfaAcceptLines(_, _)
DfaAcceptLines(g, n) ==
    IF n > Len(g.states) THEN <<>>
    ELSE (IF g.states[n].accept_state
          THEN <<<<"node [shape=doublecircle];", n>>>> ELSE <<>>)
            \o DfaAcceptLines(g, n + 1)

dfa_write_graphviz(g) ==
    <<<<"digraph {">>, <<"rankdir=LR;">>, <<"node [shape=point]; start;">>>>
        \o DfaAcceptLines(g, 1)
        \o <<<<"node [shape=circle];">>, <<"start ->", g.start_state + 1>>>>
        \o DfaEdgeLines(g, 1, 1)
        \o <<<<"}">>>>

\* ------------------------------------------------------------ check_string
\* transition_vec: [n + 1, ch, transitions[i] + 1] as Strings, rows in order
RECURSIVE DfaTransitionVec(_, _, _)
DfaTransitionVec(g, n, i) ==
    IF n > Len(g.states) THEN <<>>
    ELSE IF i > Len(g.alphabet) THEN DfaTransitionVec(g, n + 1, 1)
    ELSE <<<<DecChars(n), g.alphabet[i], DecChars(g.states[n].transitions[i] + 1)>>>>
            \o DfaTransitionVec(g, n, i + 1)

\* the inner loop over transition_vec for one letter
RECURSIVE DfaScanLetter(_, _, _, _)
DfaScanLetter(transition_vec, i, curr, letter) ==
    IF i > Len(transition_vec) THEN [curr |-> curr, fired |-> <<>>]
    ELSE IF transition_vec[i][1] = curr /\ transition_vec[i][2] = letter
         THEN [curr |-> transition_vec[i][3], fired |-> <<transition_vec[i]>>]
    ELSE DfaScanLetter(transition_vec, i + 1, curr, letter)

\* the state check_string starts in
dfa_initial_state == DecChars(1)

\* curr_state is the String of a state marked accept
DfaInAccept(g, curr) ==
    \E n \in 1..Len(g.states) : g.states[n].accept_state /\ curr = DecChars(n)

\* ------------------------------------------------------------------ inputs
DfaAlphabets == {<<"a">>, <<"a", "b">>}

\* the destination of row r in a column of the given shape
ColumnShape(shape, r, n) ==
    CASE shape = "first" -> 1
      [] shape = "self" -> r
      [] shape = "next" -> (r % n) + 1

\* the transition tables of n rows over w columns: every column of one of three
\* shapes, with at most one entry replaced by 0 or by n + 1
DfaTables(n, w) ==
    LET shaped == {[r \in 1..n |-> [c \in 1..w |-> ColumnShape(f[c], r, n)]] :
                      f \in [1..w -> {"first", "self", "next"}]}
    IN  shaped
          \cup {[t EXCEPT ![r][c] = v] :
                   t \in shaped, r \in 1..n, c \in 1..w, v \in {0, n + 1}}
          \cup {[r \in 1..n |-> [c \in 1..(w + 1) |-> 1]]}

DfaAccepts(n) == {<<>>, <<1>>, <<n>>, <<1, n>>, <<0>>, <<n + 1>>}

DfaInputs ==
    {[alphabet |-> al, start |-> st, accept |-> ac, transitions |-> t] :
        al \in DfaAlphabets, st \in 0..(MaxStates + 1),
        ac \in UNION {DfaAccepts(n) : n \in 1..MaxStates},
        t \in UNION {DfaTables(n, w) : n \in 1..MaxStates, w \in 1..2}}

\* ------------------------------------------------------------------- actions
DfaInit ==
    /\ pc3 = "validate"
    /\ dfa \in DfaInputs
    /\ state_graph = [alphabet |-> <<>>, start_state |-> 0, states |-> <<>>]
    /\ stdout3 = <<>>
    /\ str_input3 = <<>>
    /\ pos3 = 0
    /\ curr_state3 = dfa_initial_state
    /\ trace3 = <<>>
    /\ accept3 = FALSE

\* main line 88: expect() panics on an Err
Validate ==
    /\ UNCHANGED not_dfa_vars
    /\ pc3 = "validate"
    /\ pc3' = IF validate(dfa) = "ok" THEN "new_from_dfa" ELSE "panic"
    /\ UNCHANGED <<dfa, state_graph, stdout3, str_input3, pos3, curr_state3,
                   trace3, accept3>>

\* main line 91: a subtraction from 0 panics when overflow is checked and wraps
\* when it is not; an accept index out of range panics either way
NewFromDfa ==
    /\ UNCHANGED not_dfa_vars
    /\ pc3 = "new_from_dfa"
    /\ \/ /\ SubtractsFromZero(dfa) \/ AcceptIndexOutOfRange(dfa)
          /\ pc3' = "panic"
          /\ UNCHANGED state_graph
       \/ /\ ~AcceptIndexOutOfRange(dfa)
          /\ state_graph' = new_from_dfa(dfa)
          /\ pc3' = "write_graphviz"
    /\ UNCHANGED <<dfa, stdout3, str_input3, pos3, curr_state3, trace3, accept3>>

\* main line 95
DfaWriteGraphviz ==
    /\ UNCHANGED not_dfa_vars
    /\ pc3 = "write_graphviz"
    /\ stdout3' = dfa_write_graphviz(state_graph)
    /\ pc3' = "read_input"
    /\ UNCHANGED <<dfa, state_graph, str_input3, pos3, curr_state3, trace3, accept3>>

\* main lines 99-101
DfaReadInput ==
    /\ UNCHANGED not_dfa_vars
    /\ pc3 = "read_input"
    /\ \E s \in SeqsUpTo(InputChars, MaxInput) : str_input3' = s
    /\ pc3' = "check_input_alphabet"
    /\ UNCHANGED <<dfa, state_graph, stdout3, pos3, curr_state3, trace3, accept3>>

\* main line 105
DfaCheckInputAlphabet ==
    /\ UNCHANGED not_dfa_vars
    /\ pc3 = "check_input_alphabet"
    /\ pc3' = IF check_input_alphabet(state_graph.alphabet, str_input3)
              THEN "check_string" ELSE "exit"
    /\ UNCHANGED <<dfa, state_graph, stdout3, str_input3, pos3, curr_state3,
                   trace3, accept3>>

\* main line 109, check_string lines 291-299: one pass of the loop over the letters
DfaCheckStringLetter ==
    /\ UNCHANGED not_dfa_vars
    /\ pc3 = "check_string"
    /\ pos3 < Len(str_input3)
    /\ LET r == DfaScanLetter(DfaTransitionVec(state_graph, 1, 1), 1,
                              curr_state3, str_input3[pos3 + 1])
       IN  /\ curr_state3' = r.curr
           /\ trace3' = trace3 \o r.fired
    /\ pos3' = pos3 + 1
    /\ UNCHANGED <<pc3, dfa, state_graph, stdout3, str_input3, accept3>>

\* check_string lines 301-317
DfaCheckStringReturn ==
    /\ UNCHANGED not_dfa_vars
    /\ pc3 = "check_string"
    /\ pos3 = Len(str_input3)
    /\ accept3' = DfaInAccept(state_graph, curr_state3)
    /\ pc3' = "done"
    /\ UNCHANGED <<dfa, state_graph, stdout3, str_input3, pos3, curr_state3, trace3>>

DfaNext ==
    \/ Validate
    \/ NewFromDfa
    \/ DfaWriteGraphviz
    \/ DfaReadInput
    \/ DfaCheckInputAlphabet
    \/ DfaCheckStringLetter
    \/ DfaCheckStringReturn

\* ======================================================= the PDA program
\* main of CSIS616_program4: a PDA description is loaded, validated, turned
\* into a state graph and written out; no input string is run.

\* the largest number of transition rows of a PDA description
MaxRows == 2

\* ---------------------------------------------------------------- validate
\* PDA::validate as it would be without the test of the start state
pda_validate_StartUnchecked(d) ==
    IF \E r \in 1..Len(d.transitions) : Len(d.transitions[r]) # Len(d.alphabet)
    THEN "columns"
    ELSE IF \E r \in 1..Len(d.transitions) :
              \E c \in 1..Len(d.transitions[r]) :
                  d.transitions[r][c] > Len(d.transitions)
    THEN "transition"
    ELSE IF \E k \in 1..Len(d.accept) : d.accept[k] > Len(d.transitions) THEN "accept"
    ELSE "ok"

\* PDA::validate: "ok" for Ok(()), otherwise the kind of the first Err returned
pda_validate(d) ==
    IF \E r \in 1..Len(d.transitions) : Len(d.transitions[r]) # Len(d.alphabet)
    THEN "columns"
    ELSE IF \E r \in 1..Len(d.transitions) :
              \E c \in 1..Len(d.transitions[r]) :
                  d.transitions[r][c] > Len(d.transitions)
    THEN "transition"
    ELSE IF d.start > Len(d.transitions) THEN "start"
    ELSE IF \E k \in 1..Len(d.accept) : d.accept[k] > Len(d.transitions) THEN "accept"
    ELSE "ok"

\* ------------------------------------------------------------ new_from_pda
\* graph.states[*astate] is indexed out of range
PdaAcceptIndexOutOfRange(d) ==
    \E k \in 1..Len(d.accept) : d.accept[k] >= Len(d.transitions)

\* the graph new_from_pda returns when it does not panic; states[r] is the
\* State at index r - 1 of graph.states
new_from_pda(d) ==
    [alphabet |-> d.alphabet,
     start_state |-> d.start,
     states |-> [r \in 1..Len(d.transitions) |->
                    [accept_state |-> \E k \in 1..Len(d.accept) : d.accept[k] = r - 1,
                     transitions |-> d.transitions[r]]]]

\* ---------------------------------------------------------- write_graphviz
\* the lines of one transition with one label per letter: (read, pop, push)
RECURSIVE PdaLetterLines(_, _, _, _)
PdaLetterLines(transition, letters, i, pushes) ==
    IF i > Len(letters) THEN <<>>
    ELSE <<(IF pushes
            THEN <<"edge", transition[1], transition[2], letters[i], "e", letters[i]>>
            ELSE <<"edge", transition[1], transition[2], letters[i], letters[i], "e">>)>>
            \o PdaLetterLines(transition, letters, i + 1, pushes)

\* the state whose self-loop pushes the letters read (line 204)
body_state == 2

\* the lines of one row as they would be if the accept test came first
PdaTransitionLines_AcceptTestFirst(g, d, transition) ==
    IF \E k \in 1..Len(d.accept) : d.accept[k] = transition[2]
    THEN <<<<"edge", transition[1], transition[2], "e", "$", "e">>>>
    ELSE IF transition[1] = g.start_state
    THEN <<<<"edge", g.start_state, transition[2], "e", "e", "$">>>>
    ELSE IF transition[1] # transition[2]
    THEN <<<<"edge", transition[1], transition[2], "e", "e", "e">>>>
    ELSE IF transition[1] = transition[2] /\ transition[1] = body_state
    THEN PdaLetterLines(transition, d.alphabet, 1, TRUE)
    ELSE PdaLetterLines(transition, d.alphabet, 1, FALSE)

\* the lines written for one row of pda.transitions
PdaTransitionLines(g, d, transition) ==
    IF transition[1] = g.start_state
    THEN <<<<"edge", g.start_state, transition[2], "e", "e", "$">>>>
    ELSE IF \E k \in 1..Len(d.accept) : d.accept[k] = transition[2]
    THEN <<<<"edge", transition[1], transition[2], "e", "$", "e">>>>
    ELSE IF transition[1] # transition[2]
    THEN <<<<"edge", transition[1], transition[2], "e", "e", "e">>>>
    ELSE IF transition[1] = transition[2] /\ transition[1] = body_state
    THEN PdaLetterLines(transition, d.alphabet, 1, TRUE)
    ELSE PdaLetterLines(transition, d.alphabet, 1, FALSE)

\* transition[0] or transition[1] is indexed out of range in some row
PdaRowIndexOutOfRange(d) ==
    \E r \in 1..Len(d.transitions) : Len(d.transitions[r]) < 2

\* the lines of the rows from row i on, up to the first row that panics
RECURSIVE PdaEdgeLines(_, _, _)
PdaEdgeLines(g, d, i) ==
    IF i > Len(d.transitions) THEN <<>>
    ELSE IF Len(d.transitions[i]) < 2 THEN <<>>
    ELSE PdaTransitionLines(g, d, d.transitions[i]) \o PdaEdgeLines(g, d, i + 1)

\* the doublecircle lines, q{n} being the state at index n
RECURSIVE PdaAcceptLines(_, _)
PdaAcceptLines(g, r) ==
    IF r > Len(g.states) THEN <<>>
    ELSE (IF g.states[r].accept_state
          THEN <<<<"node [shape=doublecircle];", r - 1>>>> ELSE <<>>)
            \o PdaAcceptLines(g, r + 1)

\* the lines write_graphviz prints; the closing line is not reached on a panic
pda_write_graphviz(g, d) ==
    <<<<"digraph {">>, <<"rankdir=LR;">>, <<"node [shape=point]; start;">>>>
        \o PdaAcceptLines(g, 1)
        \o <<<<"node [shape=circle];">>, <<"start ->", g.start_state>>>>
        \o PdaEdgeLines(g, d, 1)
        \o (IF PdaRowIndexOutOfRange(d) THEN <<>> ELSE <<<<"}">>>>)

\* ------------------------------------------------------------------ inputs
PdaAlphabets == {<<"x">>, <<"x", "y">>}

\* tables of n rows of w columns, all rows alike but one, with every entry in
\* 0..n, and the same with the first entry of that row replaced by n + 1
PdaTables(n, w) ==
    LET good == {[r \in 1..n |-> IF r = k THEN q ELSE p] :
                    k \in 1..n, p \in [1..w -> 0..n], q \in [1..w -> 0..n]}
    IN  good \cup
        {[r \in 1..n |-> IF r = k THEN [p EXCEPT ![1] = n + 1] ELSE p] :
            k \in 1..n, p \in [1..w -> 0..n]}

PdaAccepts(n) == {<<>>, <<0>>, <<1>>, <<n>>, <<0, 1>>, <<n + 1>>}

PdaInputs ==
    {[alphabet |-> al, start |-> st, accept |-> ac, transitions |-> t] :
        al \in PdaAlphabets, st \in 0..(MaxRows + 1),
        ac \in UNION {PdaAccepts(n) : n \in 0..MaxRows},
        t \in UNION {PdaTables(n, w) : n \in 0..MaxRows, w \in 1..2}}

\* ------------------------------------------------------------------- actions
PdaInit ==
    /\ pc4 = "validate"
    /\ pda \in PdaInputs
    /\ state_graph4 = [alphabet |-> <<>>, start_state |-> 0, states |-> <<>>]
    /\ stdout4 = <<>>

\* main line 55: expect() panics on an Err
PdaValidate ==
    /\ UNCHANGED not_pda_vars
    /\ pc4 = "validate"
    /\ pc4' = IF pda_validate(pda) = "ok" THEN "new_from_pda" ELSE "panic"
    /\ UNCHANGED <<pda, state_graph4, stdout4>>

\* main line 60: an accept index out of range panics
NewFromPda ==
    /\ UNCHANGED not_pda_vars
    /\ pc4 = "new_from_pda"
    /\ IF PdaAcceptIndexOutOfRange(pda)
       THEN pc4' = "panic" /\ UNCHANGED state_graph4
       ELSE state_graph4' = new_from_pda(pda) /\ pc4' = "write_graphviz"
    /\ UNCHANGED <<pda, stdout4>>

\* main line 68: a row index out of range panics after the lines before it
PdaWriteGraphviz ==
    /\ UNCHANGED not_pda_vars
    /\ pc4 = "write_graphviz"
    /\ stdout4' = pda_write_graphviz(state_graph4, pda)
    /\ pc4' = IF PdaRowIndexOutOfRange(pda) THEN "panic" ELSE "done"
    /\ UNCHANGED <<pda, state_graph4>>

PdaNext ==
    \/ PdaValidate
    \/ NewFromPda
    \/ PdaWriteGraphviz

\* ================================================= the DFA graph program
\* main of CSIS616_program2: a DFA description is loaded, its states are
\* collected and checked, and its graph is printed by nodes and as a digraph.
\* A piece of text is a tuple: the literal or format string, then the values.

\* the largest state number of a description of program 2
MaxNode == 2

\* does the Vec v contain x
Contains(v, x) == \E k \in 1..Len(v) : v[k] = x

\* save_states: the states pushed; the assert_eq! on their number follows
save_states(d) == [d EXCEPT !.states = (d.states \o <<d.start>>) \o d.accept]

\* check_defined: do the three assert_eq! pass
check_defined(d) ==
    /\ Len(d.alphabet) # 0
    /\ Len(d.transitions) # 0
    /\ Len(d.accept) # 0

\* the loop of check_tranistion_validity indexes a row out of range: the rows
\* before it are valid, and so is its first entry when it has one
TransitionIndexOutOfRange(d) ==
    \E r \in 1..Len(d.transitions) :
        /\ \A q \in 1..(r - 1) :
              /\ Contains(d.states, d.transitions[q][1])
              /\ Contains(d.states, d.transitions[q][2])
        /\ \/ Len(d.transitions[r]) = 0
           \/ /\ Len(d.transitions[r]) = 1
              /\ Contains(d.states, d.transitions[r][1])

\* check_tranistion_validity: the value of b at the assert_eq!
check_tranistion_validity(d) ==
    \A r \in 1..Len(d.transitions) :
        /\ Contains(d.states, d.transitions[r][1])
        /\ Contains(d.states, d.transitions[r][2])

\* check_start_accept_validity: do both assert_eq! pass
check_start_accept_validity(d) ==
    /\ Contains(d.states, d.start)
    /\ \A k \in 1..Len(d.accept) : Contains(d.states, d.accept[k])

\* load_node: the start node, then one node per transition with the flags of
\* the parentheses around its two numbers
load_node(d) ==
    <<<<" -> {}", d.start>>>> \o
    [r \in 1..Len(d.transitions) |->
        <<"{} -> {}", d.transitions[r][1], d.transitions[r][2],
          Contains(d.accept, d.transitions[r][1]),
          Contains(d.accept, d.transitions[r][2])>>]

\* create_digraph: the pieces pushed onto digraph_txt
create_digraph(d) ==
    <<<<"digraph {">>, <<"node [shape=point]; start;">>,
      <<"node [shape=doublecircle]; ">>>>
        \o [i \in 1..Len(d.accept) |->
               IF i # Len(d.accept) THEN <<"{}, ", d.accept[i]>>
               ELSE <<"{}", d.accept[i]>>]
        \o <<<<";">>, <<"node [shape=circle];">>, <<"start -> {};", d.start>>>>
        \o [i \in 1..Len(d.transitions) |->
               <<"{} -> {};", d.transitions[i][1], d.transitions[i][2]>>]
        \o <<<<"}">>>>

\* ------------------------------------------------------------------ inputs
\* strictly increasing sequences over 0..MaxNode
Hw2Accepts ==
    {a \in SeqsUpTo(0..MaxNode, MaxNode + 1) :
        \A i \in 1..(Len(a) - 1) : a[i] < a[i + 1]}

\* tables of n rows, all rows alike but one
Hw2Tables(n) ==
    {[r \in 1..n |-> IF r = k THEN q ELSE p] :
        k \in 1..n, p \in [1..2 -> 0..MaxNode], q \in [1..2 -> 0..MaxNode]}

\* descriptions whose sizes agree, and some whose alphabet, accept states or
\* rows are missing or too many
Hw2Inputs ==
    {d \in [alphabet : {<<"a", "b">>}, start : 0..MaxNode, accept : Hw2Accepts,
             transitions : UNION {Hw2Tables(n) : n \in 1..(MaxNode + 2)},
             n_states : {0}, states : {<<>>}] :
        Len(d.transitions) = Len(d.accept) + 1}
    \cup
    UNION {
      {[alphabet |-> al, start |-> st, accept |-> ac, transitions |-> t,
        n_states |-> 0, states |-> <<>>] :
          al \in {<<>>, <<"a">>}, ac \in {<<>>, <<st>>},
          t \in {<<>>, <<<<st>>>>, <<<<st, st>>>>, <<<<st, st>>, <<st>>>>,
                 <<<<st, st>>, <<>>>>, <<<<st, st>>, <<st, st>>>>}} :
      st \in 0..MaxNode}

\* ------------------------------------------------------------------- actions
Hw2Init ==
    /\ pc2 = "compute_states"
    /\ dfa2 \in Hw2Inputs
    /\ nodes = <<>>
    /\ distructure = <<>>
    /\ stdout2 = <<>>

\* main line 32
ComputeStates ==
    /\ UNCHANGED not_hw2_vars
    /\ pc2 = "compute_states"
    /\ dfa2' = [dfa2 EXCEPT !.n_states = Len(dfa2.transitions)]
    /\ pc2' = "save_states"
    /\ UNCHANGED <<nodes, distructure, stdout2>>

\* main line 33: the assert_eq! panics when the numbers differ
SaveStates ==
    /\ UNCHANGED not_hw2_vars
    /\ pc2 = "save_states"
    /\ dfa2' = save_states(dfa2)
    /\ pc2' = IF Len(dfa2'.states) = dfa2.n_states THEN "check_defined" ELSE "panic"
    /\ UNCHANGED <<nodes, distructure, stdout2>>

\* main line 36
CheckDefined ==
    /\ UNCHANGED not_hw2_vars
    /\ pc2 = "check_defined"
    /\ pc2' = IF check_defined(dfa2) THEN "check_tranistion_validity" ELSE "panic"
    /\ UNCHANGED <<dfa2, nodes, distructure, stdout2>>

\* main line 39
CheckTranistionValidity ==
    /\ UNCHANGED not_hw2_vars
    /\ pc2 = "check_tranistion_validity"
    /\ pc2' = IF TransitionIndexOutOfRange(dfa2) THEN "panic"
              ELSE IF check_tranistion_validity(dfa2)
              THEN "check_start_accept_validity" ELSE "panic"
    /\ UNCHANGED <<dfa2, nodes, distructure, stdout2>>

\* main line 42
CheckStartAcceptValidity ==
    /\ UNCHANGED not_hw2_vars
    /\ pc2 = "check_start_accept_validity"
    /\ pc2' = IF check_start_accept_validity(dfa2) THEN "load_node" ELSE "panic"
    /\ UNCHANGED <<dfa2, nodes, distructure, stdout2>>

\* main lines 45-52
LoadNode ==
    /\ UNCHANGED not_hw2_vars
    /\ pc2 = "load_node"
    /\ nodes' = load_node(dfa2)
    /\ pc2' = "print_graph"
    /\ UNCHANGED <<dfa2, distructure, stdout2>>

\* main lines 55-56
PrintGraph ==
    /\ UNCHANGED not_hw2_vars
    /\ pc2 = "print_graph"
    /\ stdout2' = <<<<"g by nodes:">>>> \o nodes
    /\ pc2' = "create_digraph"
    /\ UNCHANGED <<dfa2, nodes, distructure>>

\* main line 59
CreateDigraph ==
    /\ UNCHANGED not_hw2_vars
    /\ pc2 = "create_digraph"
    /\ distructure' = create_digraph(dfa2)
    /\ pc2' = "write_structure"
    /\ UNCHANGED <<dfa2, nodes, stdout2>>

\* main lines 62-63
WriteStructure ==
    /\ UNCHANGED not_hw2_vars
    /\ pc2 = "write_structure"
    /\ stdout2' = stdout2 \o distructure
    /\ pc2' = "done"
    /\ UNCHANGED <<dfa2, nodes, distructure>>

Hw2Next ==
    \/ ComputeStates
    \/ SaveStates
    \/ CheckDefined
    \/ CheckTranistionValidity
    \/ CheckStartAcceptValidity
    \/ LoadNode
    \/ PrintGraph
    \/ CreateDigraph
    \/ WriteStructure

\* ================================================= the node list program
\* main of CSIS616_program1: the argument's characters, commas removed, are
\* the nodes of a chain whose graph is written.

\* the longest argument drawn
MaxArg == 4

\* the characters arguments are drawn from
ArgChars == {"a", "b", ","}

\* the index of the first comma among the first n characters, 0 if none
FirstComma(v, n) ==
    IF \E x \in 1..n : v[x] = ","
    THEN CHOOSE x \in 1..n : v[x] = "," /\ \A y \in 1..(x - 1) : v[y] # ","
    ELSE 0

\* Vec::remove of the element at index x (1 relative here)
Remove(v, x) == SubSeq(v, 1, x - 1) \o SubSeq(v, x + 1, Len(v))

\* lines 38-64: the pieces pushed onto digraph_txt for the nodes v
digraph_pieces(v) ==
    <<<<"digraph {">>, <<"node [shape=point]; start;">>,
      <<"node [shape=doublecircle]; ", v[Len(v)]>>, <<";">>,
      <<"node [shape=circle];">>>>
        \o [x \in 1..Len(v) |-> IF x = 1 THEN <<"start -> ", v[x]>>
                                 ELSE <<"{} -> {};", v[x - 1], v[x]>>]
        \o (IF Len(v) > 1 THEN <<<<"}">>>> ELSE <<>>)

\* ------------------------------------------------------------------- actions
Hw1Init ==
    /\ pc1 = "remove_commas"
    /\ node_names \in SeqsUpTo(ArgChars, MaxArg)
    /\ n1 = Len(node_names)
    /\ f1 = FALSE
    /\ digraph_txt = <<>>
    /\ stdout1 = <<>>

\* lines 25-35: one pass of the while loop. The for loop removes the first
\* comma and breaks, or sets f at the last index; over 0..0 it does nothing
RemoveCommasPass ==
    /\ UNCHANGED not_hw1_vars
    /\ pc1 = "remove_commas"
    /\ f1 = FALSE
    /\ LET x == FirstComma(node_names, n1)
       IN  IF x # 0
           THEN /\ node_names' = Remove(node_names, x)
                /\ n1' = n1 - 1
                /\ UNCHANGED f1
           ELSE /\ f1' = (n1 > 0)
                /\ UNCHANGED <<node_names, n1>>
    /\ UNCHANGED <<pc1, digraph_txt, stdout1>>

\* lines 38-64, once the while loop has ended
Hw1CreateDigraph ==
    /\ UNCHANGED not_hw1_vars
    /\ pc1 = "remove_commas"
    /\ f1 = TRUE
    /\ digraph_txt' = digraph_pieces(node_names)
    /\ pc1' = "write_all"
    /\ UNCHANGED <<node_names, n1, f1, stdout1>>

\* line 67
Hw1WriteAll ==
    /\ UNCHANGED not_hw1_vars
    /\ pc1 = "write_all"
    /\ stdout1' = digraph_txt
    /\ pc1' = "done"
    /\ UNCHANGED <<node_names, n1, f1, digraph_txt>>

Hw1Next ==
    \/ RemoveCommasPass
    \/ Hw1CreateDigraph
    \/ Hw1WriteAll

\* =========================================================== specifications
vars == <<regex_vars, dfa_vars, pda_vars, hw2_vars, hw1_vars>>

\* the values of a program's variables in a run of another program
RegExIdle ==
    /\ pc = "idle"
    /\ reg_ex = <<>>
    /\ alphabet = <<>>
    /\ expressions = <<>>
    /\ states = <<>>
    /\ transitions = <<>>
    /\ accept_states = <<>>
    /\ transition_symbols = <<>>
    /\ stdout = <<>>
    /\ str_input = <<>>
    /\ pos = 0
    /\ transition_count = <<>>
    /\ curr_state = "1"
    /\ accept = FALSE

DfaIdle ==
    /\ pc3 = "idle"
    /\ dfa = [alphabet |-> <<>>, start |-> 1, accept |-> <<>>, transitions |-> <<>>]
    /\ state_graph = [alphabet |-> <<>>, start_state |-> 0, states |-> <<>>]
    /\ stdout3 = <<>>
    /\ str_input3 = <<>>
    /\ pos3 = 0
    /\ curr_state3 = dfa_initial_state
    /\ trace3 = <<>>
    /\ accept3 = FALSE

PdaIdle ==
    /\ pc4 = "idle"
    /\ pda = [alphabet |-> <<>>, start |-> 0, accept |-> <<>>, transitions |-> <<>>]
    /\ state_graph4 = [alphabet |-> <<>>, start_state |-> 0, states |-> <<>>]
    /\ stdout4 = <<>>

Hw2Idle ==
    /\ pc2 = "idle"
    /\ dfa2 = [alphabet |-> <<>>, start |-> 0, accept |-> <<>>, transitions |-> <<>>,
               n_states |-> 0, states |-> <<>>]
    /\ nodes = <<>>
    /\ distructure = <<>>
    /\ stdout2 = <<>>

Hw1Idle ==
    /\ pc1 = "idle"
    /\ node_names = <<>>
    /\ n1 = 0
    /\ f1 = FALSE
    /\ digraph_txt = <<>>
    /\ stdout1 = <<>>

\* a run of the regex program
Init == RegExInit /\ DfaIdle /\ PdaIdle /\ Hw2Idle /\ Hw1Idle

Next == RegExNext

Spec == Init /\ [][Next]_vars

\* a run of the DFA program
InitDFA == DfaInit /\ RegExIdle /\ PdaIdle /\ Hw2Idle /\ Hw1Idle

NextDFA == DfaNext

SpecDFA == InitDFA /\ [][NextDFA]_vars

\* a run of the PDA program
InitPDA == PdaInit /\ RegExIdle /\ DfaIdle /\ Hw2Idle /\ Hw1Idle

NextPDA == PdaNext

SpecPDA == InitPDA /\ [][NextPDA]_vars

\* a run of the DFA graph program
InitHW2 == Hw2Init /\ RegExIdle /\ DfaIdle /\ PdaIdle /\ Hw1Idle

NextHW2 == Hw2Next

SpecHW2 == InitHW2 /\ [][NextHW2]_vars

\* a run of the node list program
InitHW1 == Hw1Init /\ RegExIdle /\ DfaIdle /\ PdaIdle /\ Hw2Idle

NextHW1 == Hw1Next

SpecHW1 == InitHW1 /\ [][NextHW1]_vars

\* a run of one of the two programs that validate a description
InitTables == InitDFA \/ InitPDA

NextTables == DfaNext \/ PdaNext

SpecTables == InitTables /\ [][NextTables]_vars

\* a run of one of the two programs that test an input string
InitSimulators == Init \/ InitDFA

NextSimulators == RegExNext \/ DfaNext

SpecSimulators == InitSimulators /\ [][NextSimulators]_vars

\* a run of any one of the five programs
InitPrograms == Init \/ InitDFA \/ InitPDA \/ InitHW2 \/ InitHW1

NextPrograms == RegExNext \/ DfaNext \/ PdaNext \/ Hw2Next \/ Hw1Next

SpecPrograms == InitPrograms /\ [][NextPrograms]_vars

\* =================================================================== claims
\* ---- the language of a regular expression, independently of the compiler
\* the index of the ')' that closes the '(' at e[i]
RECURSIVE RefClose(_, _, _)
RefClose(e, i, depth) ==
    IF e[i] = "(" THEN RefClose(e, i + 1, depth + 1)
    ELSE IF e[i] = ")" THEN (IF depth = 1 THEN i ELSE RefClose(e, i + 1, depth - 1))
    ELSE RefClose(e, i + 1, depth)

\* the positions of the '|' of e outside every group
RefBars(e) ==
    {i \in 1..Len(e) :
        /\ e[i] = "|"
        /\ Cardinality({j \in 1..i : e[j] = "("}) = Cardinality({j \in 1..i : e[j] = ")"})}

RECURSIVE RefAlt(_, _)
RECURSIVE RefCat(_, _)
RECURSIVE RefStar(_, _)

\* s is in the language of the alternation e
RefAlt(e, s) ==
    LET bars == RefBars(e)
    IN  IF bars = {} THEN RefCat(e, s)
        ELSE LET b == CHOOSE i \in bars : \A j \in bars : i <= j
             IN  \/ RefCat(SubSeq(e, 1, b - 1), s)
                 \/ RefAlt(SubSeq(e, b + 1, Len(e)), s)

\* s is in the language of the concatenation e (no '|' outside a group)
RefCat(e, s) ==
    IF Len(e) = 0 THEN Len(s) = 0
    ELSE LET last == IF e[1] = "(" THEN RefClose(e, 1, 0) ELSE 1
             atom == IF e[1] = "(" THEN SubSeq(e, 2, last - 1) ELSE <<e[1]>>
             starred == last < Len(e) /\ e[last + 1] = "*"
             rest == SubSeq(e, IF starred THEN last + 2 ELSE last + 1, Len(e))
         IN  \E k \in 0..Len(s) :
                /\ IF starred THEN RefStar(atom, SubSeq(s, 1, k))
                   ELSE IF e[1] = "(" THEN RefAlt(atom, SubSeq(s, 1, k))
                   ELSE SubSeq(s, 1, k) = atom
                /\ RefCat(rest, SubSeq(s, k + 1, Len(s)))

\* s is in the language of (atom)*
RefStar(atom, s) ==
    \/ Len(s) = 0
    \/ \E k \in 1..Len(s) :
          /\ IF Len(atom) = 1 THEN SubSeq(s, 1, k) = atom ELSE RefAlt(atom, SubSeq(s, 1, k))
          /\ RefStar(atom, SubSeq(s, k + 1, Len(s)))

InLanguage(e, s) == RefAlt(e, s)

\* e is made of alphabet symbols only
OnlySymbols(e) == \A i \in 1..Len(e) : e[i] \notin symbols

\* the set of the values of a sequence
Range(f) == {f[i] : i \in 1..Len(f)}

\* the state a state char stands for
CharState(c) == CHOOSE d \in 0..9 : DigitChar(d) = c

\* C1: for every guard-accepted expression (here: without spaces) and every input
\* over its alphabet, check_string returns true exactly when the input is in the
\* language of the expression.
C1_VerdictIsLanguageMembership ==
    (pc = "done" /\ " " \notin Range(reg_ex))
        => (accept <=> InLanguage(reg_ex, str_input))

\* C2: check_string returns true exactly when the state reached at the end of the
\* input is in the accept set and as many transitions fired as the input has
\* characters; no character fires more than one transition.
C2_VerdictIsAcceptAndLength ==
    pc = "done" =>
        /\ accept <=> (/\ CharState(curr_state) \in Range(accept_states)
                       /\ Len(transition_count) = Len(str_input))
        /\ Len(transition_count) <= Len(str_input)

\* s is w repeated some number of times (zero included)
IsRepetitionOf(s, w) ==
    /\ Len(s) % Len(w) = 0
    /\ \A i \in 1..Len(s) : s[i] = w[((i - 1) % Len(w)) + 1]

\* C3: for an expression "(w)*" with w a sequence of alphabet symbols, every
\* input w^n, n >= 0, is accepted.
C3_StarAcceptsEveryRepetition ==
    (/\ pc = "done"
     /\ Len(reg_ex) >= 4
     /\ IsStarParen(reg_ex)
     /\ OnlySymbols(SubSeq(reg_ex, 2, Len(reg_ex) - 2))
     /\ IsRepetitionOf(str_input, SubSeq(reg_ex, 2, Len(reg_ex) - 2)))
        => accept

\* C4: for an expression c1...ck of alphabet symbols only, the input c1...ck
\* fires k transitions and is accepted, and a proper prefix of length j fires j
\* transitions and is rejected.
C4_PlainChainRoundTrip ==
    (/\ pc = "done"
     /\ OnlySymbols(reg_ex)
     /\ Len(str_input) <= Len(reg_ex)
     /\ str_input = SubSeq(reg_ex, 1, Len(str_input)))
        => /\ Len(transition_count) = Len(str_input)
           /\ accept <=> (Len(str_input) = Len(reg_ex))

\* ---- the builder's output, chain by chain
\* the NFA of main lines 102-109 is complete
Built == pc \in {"write_graphviz", "read_input", "check_input_alphabet",
                 "check_string", "done"}

\* a chain of alphabet symbols and '*' that begins with a symbol
IsSymbolStarChain(c) ==
    /\ Len(c) > 0
    /\ c[1] \notin symbols
    /\ \A i \in 1..Len(c) : c[i] \notin {"(", ")", "|", " "}

\* a chain "(c1...ck)*" of alphabet symbols
IsStarOfSymbols(c) ==
    /\ Len(c) >= 4
    /\ IsStarParen(c)
    /\ OnlySymbols(SubSeq(c, 2, Len(c) - 2))

\* the number of transitions a chain stands for: in a plain chain one per
\* character, in a star-wrapped chain one per character other than parentheses
ChainTransitionCount(c) ==
    IF IsStarParen(c)
    THEN 1 + Cardinality({i \in 3..Len(c) : c[i] \notin {"(", ")"}})
    ELSE Len(c)

RECURSIVE ChainOffset(_, _)
\* the number of transitions that precede those of chain k
ChainOffset(chains, k) ==
    IF k = 1 THEN 0
    ELSE ChainOffset(chains, k - 1) + ChainTransitionCount(chains[k - 1])

\* the first state not used by the first o transitions
FirstFresh(o) ==
    LET used == {1} \cup {transitions[i][1] : i \in 1..o} \cup {transitions[i][2] : i \in 1..o}
    IN  1 + CHOOSE m \in used : \A x \in used : x <= m

\* the number of symbols among the first i characters of a chain
SymbolsUpTo(c, i) == Cardinality({j \in 1..i : c[j] # "*"})

\* C6: a chain of alphabet symbols and '*' yields, in order, one transition to a
\* newly allocated state per symbol, labelled with that symbol, and one self-loop
\* per '*', labelled with the symbol before it; the first transition leaves
\* state 1, fresh states are consecutive across chains, and the chain's last
\* allocated state is an accept state.
C6_PlainChainConstruction ==
    Built =>
        \A k \in 1..Len(expressions) :
            IsSymbolStarChain(expressions[k]) =>
                LET c == expressions[k]
                    o == ChainOffset(expressions, k)
                    n == FirstFresh(o)
                    at(i) == n + SymbolsUpTo(c, i) - 1
                IN  /\ \A i \in 1..Len(c) :
                          /\ transitions[o + i] =
                                IF c[i] = "*" THEN <<at(i), at(i)>>
                                ELSE IF i = 1 THEN <<1, n>>
                                ELSE <<at(i) - 1, at(i)>>
                          /\ transition_symbols[o + i] =
                                IF c[i] = "*" THEN <<c[i - 1]>> ELSE <<c[i]>>
                    /\ at(Len(c)) \in Range(accept_states)

\* C7: a star-wrapped chain "(c1...ck)*" yields an entry transition from state 1
\* to a fresh state and a closing edge from its last allocated state to state 1,
\* and both state 1 and that last state are accept states; an NFA with a
\* star-wrapped chain accepts the empty input without firing a transition.
C7_StarChainConstruction ==
    /\ Built =>
        \A k \in 1..Len(expressions) :
            IsStarOfSymbols(expressions[k]) =>
                LET c == expressions[k]
                    o == ChainOffset(expressions, k)
                    n == FirstFresh(o)
                    last == n + (Len(c) - 3) - 1
                IN  /\ transitions[o + 1] = <<1, n>>
                    /\ transitions[o + ChainTransitionCount(c)] = <<last, 1>>
                    /\ {1, last} \subseteq Range(accept_states)
    /\ (/\ pc = "done"
        /\ str_input = <<>>
        /\ \E k \in 1..Len(expressions) : IsStarParen(expressions[k]))
            => (transition_count = <<>> /\ accept)

\* an alternation of chains of alphabet symbols and '*'
IsPlainAlternation(e) ==
    /\ Len(e) > 0
    /\ \A i \in 1..Len(e) : e[i] \notin {"(", ")", " "}

\* the destination states of the transitions of chain k
ChainDestinations(k) ==
    LET o == ChainOffset(expressions, k)
    IN  {transitions[o + i][2] : i \in 1..ChainTransitionCount(expressions[k])}

\* C8: for an alternation p1|...|pk of plain chains every chain's first
\* transition leaves state 1, no two chains share a destination state, and every
\* chain's last state is an accept state; "a|b" yields 1->2 on 'a', 1->3 on 'b'
\* and accept {2,3}.
C8_AlternationConstruction ==
    (Built /\ IsPlainAlternation(reg_ex)) =>
        /\ \A k \in 1..Len(expressions) :
              /\ transitions[ChainOffset(expressions, k) + 1][1] = 1
              /\ (CHOOSE m \in ChainDestinations(k) : \A x \in ChainDestinations(k) : x <= m)
                    \in Range(accept_states)
              /\ \A j \in 1..Len(expressions) :
                    j # k => ChainDestinations(j) \cap ChainDestinations(k) = {}
        /\ reg_ex = <<"a", "|", "b">> =>
              /\ transitions = <<<<1, 2>>, <<1, 3>>>>
              /\ transition_symbols = <<<<"a">>, <<"b">>>>
              /\ accept_states = <<2, 3>>

\* an alternation of three chains, one with a '*', has been built
C8_Witness ==
    /\ Built
    /\ reg_ex = <<"a","b","|","a","a","|","b","*","a">>
    /\ transitions = <<<<1,2>>, <<2,3>>, <<1,4>>, <<4,5>>, <<1,6>>, <<6,6>>, <<6,7>>>>
    /\ accept_states = <<3, 5, 7>>

\* ---- the choice among matching transitions
\* the transitions whose source is the state curr stands for and whose symbol
\* list holds the letter
Candidates(curr, letter) ==
    {i \in 1..Len(transitions) :
        /\ DecChars(transitions[i][1]) = <<curr>>
        /\ letter \in Range(transition_symbols[i])}

\* C9: when several transitions leave the current state on the current letter,
\* check_string fires exactly one, the first in transition order, and leaves the
\* trace entries of the earlier letters as they are.
C9_FirstCandidateFires ==
    [][(/\ pc = "check_string"
        /\ pos < Len(str_input)
        /\ Cardinality(Candidates(curr_state, str_input[pos + 1])) >= 2)
         => LET cands == Candidates(curr_state, str_input[pos + 1])
                first == CHOOSE i \in cands : \A j \in cands : i <= j
            IN  /\ Len(transition_count') = Len(transition_count) + 1
                /\ SubSeq(transition_count', 1, Len(transition_count)) = transition_count
                /\ <<transition_count'[Len(transition_count')][1],
                     transition_count'[Len(transition_count')][2]>>
                        = <<curr_state, str_input[pos + 1]>>
                /\ <<transition_count'[Len(transition_count')][3]>>
                        = DecChars(transitions[first][2])
                /\ <<curr_state'>> = DecChars(transitions[first][2])]_vars

\* ---- the simplifier applied to its own output
\* the chains of S that are star-wrapped, and the others, each in the order of S
StarChains(S) == SelectSeq(S, IsStarParen)

OtherChains(S) == SelectSeq(S, LAMBDA c : ~IsStarParen(c))

\* C10 as claimed: simplifying the simplified chain list returns the same chains
\* in the same order.
C10_SimplifyIdempotentOrdered ==
    pc = "get_states" => simplify_expressions(expressions) = expressions

\* C10 as amended: simplifying the simplified chain list returns the same chains
\* with the chains that are not star-wrapped first and the star-wrapped chains
\* after them, each group in its order; the list is unchanged when no
\* star-wrapped chain stands before another kind of chain.
C10_SimplifyMovesStarChainsLast ==
    pc = "get_states" =>
        simplify_expressions(expressions)
            = OtherChains(expressions) \o StarChains(expressions)

\* the simplifier has produced a star-wrapped chain in front of a plain chain,
\* and simplifying again puts the plain chain first
C10_Witness ==
    /\ pc = "get_states"
    /\ expressions = <<<<"(", "a", ")", "*">>, <<"b">>>>
    /\ simplify_expressions(expressions) = <<<<"b">>, <<"(", "a", ")", "*">>>>

\* ---- the state a simulation starts in
\* every state the description names is one of its states 1..n
DfaInRange ==
    /\ dfa.start \in 1..Len(dfa.transitions)
    /\ \A r \in 1..Len(dfa.transitions) :
          \A c \in 1..Len(dfa.transitions[r]) :
              dfa.transitions[r][c] \in 1..Len(dfa.transitions)
    /\ \A k \in 1..Len(dfa.accept) : dfa.accept[k] \in 1..Len(dfa.transitions)

\* C5: in both simulators the current state before the first input character is
\* the automaton's start state, and the first transition fired leaves it (for
\* the DFA: whenever the description names only states it has).
C5_SimulationStartsInStartState ==
    /\ (pc = "check_string" /\ pos = 0) => <<curr_state>> = DecChars(start)
    /\ (pc \in {"check_string", "done"} /\ Len(transition_count) >= 1)
          => <<transition_count[1][1]>> = DecChars(start)
    /\ (pc3 = "check_string" /\ pos3 = 0 /\ DfaInRange)
          => curr_state3 = DecChars(dfa.start)
    /\ (pc3 \in {"check_string", "done"} /\ Len(trace3) >= 1 /\ DfaInRange)
          => trace3[1][1] = DecChars(dfa.start)

\* ------------------------------------------------------ the lexical guard
\* the run ended in check_reg_ex_chars: it exited before anything was written
GuardRejected == pc = "exit" /\ stdout = <<>>

\* check_reg_ex_chars returned to main
GuardAccepted == pc \notin {"check_reg_ex_chars", "panic"} /\ ~GuardRejected

UpperLetters ==
    {"A","B","C","D","E","F","G","H","I","J","K","L","M",
     "N","O","P","Q","R","S","T","U","V","W","X","Y","Z"}

\* the number of characters c among the first k characters of e
CountOf(e, c, k) == Cardinality({i \in 1..k : e[i] = c})

\* no prefix holds more ')' than '(' and the totals are equal
Balanced(e) ==
    /\ \A k \in 0..Len(e) : CountOf(e, ")", k) <= CountOf(e, "(", k)
    /\ CountOf(e, "(", Len(e)) = CountOf(e, ")", Len(e))

\* one of the six listed conditions holds of the non-empty expression e, the
\* accepted set being made of the given letters, the digits and "*|() "
ListedCondition(e, letters) ==
    \/ e[1] \in {")", "|", "*", " "}
    \/ \E i \in 1..Len(e) :
          e[i] \notin (letters \cup Digits \cup {"*", "|", "(", ")", " "})
    \/ \E i \in 1..(Len(e) - 1) :
          e[i] \in {"(", "|"} /\ e[i + 1] \in {")", "|", "*"}
    \/ \E i \in 1..(Len(e) - 1) : e[i] = "*" /\ e[i + 1] = "*"
    \/ e[Len(e)] \in {"(", "|"}
    \/ ~Balanced(e)

\* C11 as stated: the guard rejects a non-empty expression exactly when one of
\* the six listed conditions holds, the accepted set holding every letter; an
\* expression that violates none of them is accepted.
C11_GuardRejectsExactlyListed ==
    (Len(reg_ex) > 0 /\ pc # "check_reg_ex_chars")
        => /\ GuardRejected <=> ListedCondition(reg_ex, Letters \cup UpperLetters)
           /\ GuardAccepted <=> ~ListedCondition(reg_ex, Letters \cup UpperLetters)

\* C11 amended: the guard rejects a non-empty expression exactly when one of the
\* six listed conditions holds, the letters of the accepted set being the
\* lower-case letters a..z only.
C11_GuardRejectsExactlyListedLowerCase ==
    (Len(reg_ex) > 0 /\ pc # "check_reg_ex_chars")
        => /\ GuardRejected <=> ListedCondition(reg_ex, Letters)
           /\ GuardAccepted <=> ~ListedCondition(reg_ex, Letters)

\* an expression with '*' before '|' and a parenthesised star passed the guard
C11_Witness ==
    /\ GuardAccepted
    /\ \E i \in 1..(Len(reg_ex) - 1) : reg_ex[i] = "*" /\ reg_ex[i + 1] = "|"
    /\ "(" \in Range(reg_ex)

\* C12: the parenthesis check rejects exactly the unbalanced expressions: those
\* where some prefix holds more ')' than '(' (whatever follows) or where '('
\* outnumber ')' in total; it accepts every other expression.
C12_ParenthesisCheckIsBalance ==
    Len(reg_ex) > 0 => (ParenthesesRejected(reg_ex) <=> ~Balanced(reg_ex))

\* the guard rejected an expression whose only fault is a ')' that comes before
\* its '(': the totals are equal
C12_Witness ==
    /\ GuardRejected
    /\ CountOf(reg_ex, "(", Len(reg_ex)) = CountOf(reg_ex, ")", Len(reg_ex))
    /\ CountOf(reg_ex, "(", Len(reg_ex)) > 0
    /\ ~FirstCharRejected(reg_ex) /\ ~BadCharacter(reg_ex)
    /\ ~FrontOrRejected(reg_ex) /\ ~StarRejected(reg_ex) /\ ~EndRejected(reg_ex)

\* C13: when check_reg_ex_chars rejects the expression, the run stops there:
\* no later function of main has run (nothing was computed, written or read)
\* and no step follows.
C13_FailFast ==
    (Len(reg_ex) > 0 /\ ListedCondition(reg_ex, Letters))
        => /\ pc \in {"check_reg_ex_chars", "exit"}
           /\ alphabet = <<>> /\ expressions = <<>> /\ states = <<>>
           /\ transitions = <<>> /\ accept_states = <<>>
           /\ transition_symbols = <<>> /\ stdout = <<>>
           /\ str_input = <<>> /\ pos = 0 /\ transition_count = <<>>
           /\ ~accept

\* the guard rejected an expression that ends in '|' and the run is over
C13_Witness ==
    /\ pc = "exit"
    /\ Len(reg_ex) > 0
    /\ reg_ex[Len(reg_ex)] = "|"
    /\ ~ENABLED Next

\* ------------------------------------------------- validation of descriptions
\* some transition entry, the start state or an accept state of d is greater
\* than the number of transition rows
ExceedsStateCount(d) ==
    \/ \E r \in 1..Len(d.transitions) :
          \E c \in 1..Len(d.transitions[r]) : d.transitions[r][c] > Len(d.transitions)
    \/ d.start > Len(d.transitions)
    \/ \E k \in 1..Len(d.accept) : d.accept[k] > Len(d.transitions)

\* C14: validate (of the DFA and of the PDA program) returns an error, never
\* Ok, for a description with a transition entry, a start state or an accept
\* state greater than the number of transition rows.
C14_ValidateRejectsAboveStateCount ==
    /\ (pc3 \notin {"idle", "validate"} /\ ExceedsStateCount(dfa)) => pc3 = "panic"
    /\ (pc4 \notin {"idle", "validate"} /\ ExceedsStateCount(pda)) => pc4 = "panic"

\* PDA::validate refused a description whose only fault is its start state
C14_Witness ==
    /\ pc4 = "panic"
    /\ pda.start > Len(pda.transitions)
    /\ \A r \in 1..Len(pda.transitions) :
          /\ Len(pda.transitions[r]) = Len(pda.alphabet)
          /\ \A c \in 1..Len(pda.transitions[r]) :
                pda.transitions[r][c] <= Len(pda.transitions)
    /\ \A k \in 1..Len(pda.accept) : pda.accept[k] <= Len(pda.transitions)

\* the start state, the accept states and the transition entries of d all lie
\* in 1..n, n the number of transition rows
AllInStateSet(d) ==
    /\ d.start \in 1..Len(d.transitions)
    /\ \A k \in 1..Len(d.accept) : d.accept[k] \in 1..Len(d.transitions)
    /\ \A r \in 1..Len(d.transitions) :
          \A c \in 1..Len(d.transitions[r]) :
              d.transitions[r][c] \in 1..Len(d.transitions)

\* C15: a description that validation accepts has its start state, its accept
\* states and the endpoints of its transitions in its state set: in 1..n for
\* DFA::validate and PDA::validate (0 is rejected), in `states` for the checks
\* of program 2.
C15_AcceptedDescriptionsStayInStateSet ==
    /\ pc3 \notin {"idle", "validate", "panic"} => AllInStateSet(dfa)
    /\ pc4 \in {"new_from_pda", "write_graphviz", "done"} => AllInStateSet(pda)
    /\ pc2 \in {"load_node", "print_graph", "create_digraph", "write_structure", "done"}
          => /\ Contains(dfa2.states, dfa2.start)
             /\ \A k \in 1..Len(dfa2.accept) : Contains(dfa2.states, dfa2.accept[k])
             /\ \A r \in 1..Len(dfa2.transitions) :
                   /\ Contains(dfa2.states, dfa2.transitions[r][1])
                   /\ Contains(dfa2.states, dfa2.transitions[r][2])

\* ------------------------------------------------------ the input alphabet
\* every character of s is one of the symbols of al
InAlphabet(s, al) == \A k \in 1..Len(s) : s[k] \in Range(al)

\* check_input_alphabet was called in the run of the regex program
RegExInputChecked == pc \in {"check_string", "done"} \/ (pc = "exit" /\ stdout # <<>>)

\* check_input_alphabet was called in the run of the DFA program
DfaInputChecked == pc3 \in {"check_string", "done", "exit"}

\* C16: check_input_alphabet passes exactly when every character of the input
\* is in the alphabet; otherwise the run ends there, before check_string has
\* processed a character or fired a transition.
C16_AlphabetCheckPrecedesSimulation ==
    /\ RegExInputChecked =>
          /\ pc \in {"check_string", "done"} <=> InAlphabet(str_input, alphabet)
          /\ ~InAlphabet(str_input, alphabet) =>
                pc = "exit" /\ pos = 0 /\ transition_count = <<>> /\ ~accept
    /\ DfaInputChecked =>
          /\ pc3 \in {"check_string", "done"} <=> InAlphabet(str_input3, dfa.alphabet)
          /\ ~InAlphabet(str_input3, dfa.alphabet) =>
                pc3 = "exit" /\ pos3 = 0 /\ trace3 = <<>> /\ ~accept3

\* the regex program stopped on an input whose first character is in the
\* alphabet and whose second is not
C16_Witness ==
    /\ pc = "exit"
    /\ Len(str_input) >= 2
    /\ str_input[1] \in Range(alphabet)
    /\ str_input[2] \notin Range(alphabet)
    /\ pos = 0

\* ------------------------------------------------------------ new_from_pda
\* new_from_pda did not return
NewFromPdaPanicked == pc4 = "panic" /\ stdout4 = <<>> /\ pda_validate(pda) = "ok"

\* new_from_pda returned
NewFromPdaReturned == pc4 \in {"write_graphviz", "done"} \/ (pc4 = "panic" /\ stdout4 # <<>>)

\* C17: for a description that passes PDA::validate, new_from_pda completes;
\* its graph has the description's alphabet, one State per transition row, and
\* exactly the states listed in accept marked as accept states.
C17_NewFromPdaCompletes ==
    /\ ~NewFromPdaPanicked
    /\ NewFromPdaReturned =>
          /\ state_graph4.alphabet = pda.alphabet
          /\ Len(state_graph4.states) = Len(pda.transitions)
          /\ \A r \in 1..Len(state_graph4.states) :
                state_graph4.states[r].accept_state <=> (r - 1) \in Range(pda.accept)

\* ------------------------------------------------------------ graph output
\* the text opens with `open`, closes with `close`, and has neither in between
BracesBalanced(out, open, close) ==
    /\ Len(out) >= 2
    /\ out[1] = open
    /\ out[Len(out)] = close
    /\ \A i \in 2..(Len(out) - 1) : out[i] # open /\ out[i] # close

\* C18: each graph exporter's output opens with exactly one "digraph {" and
\* ends with exactly one "}", also for a graph of a single node.
C18_ExportersBalanceBraces ==
    /\ pc1 \in {"write_all", "done"} => BracesBalanced(digraph_txt, <<"digraph {">>, <<"}">>)
    /\ pc2 \in {"write_structure", "done"} =>
          BracesBalanced(distructure, <<"digraph {">>, <<"}">>)
    /\ pc3 \in {"read_input", "check_input_alphabet", "check_string", "done", "exit"} =>
          BracesBalanced(stdout3, <<"digraph {">>, <<"}">>)
    /\ pc4 = "done" => BracesBalanced(stdout4, <<"digraph {">>, <<"}">>)
    /\ stdout # <<>> => BracesBalanced(stdout, <<"digraph {">>, <<"}">>)

\* ------------------------------------------------------------- PDA labels
\* the (read, pop, push) labels written on the edges from state p to state q
LabelsWritten(p, q) ==
    {<<stdout4[i][4], stdout4[i][5], stdout4[i][6]>> :
        i \in {j \in 1..Len(stdout4) :
                  /\ stdout4[j][1] = "edge"
                  /\ stdout4[j][2] = p
                  /\ stdout4[j][3] = q}}

\* the labels on the edges written for the row t (rows with the same endpoints
\* fall under the same rule)
RowLabels(t) == LabelsWritten(t[1], t[2])

\* C19 as stated: an edge leaving the start state pushes '$'; otherwise an edge
\* entering an accept state pops '$'; otherwise a self-loop on the body state
\* reads each alphabet symbol with no stack change; every remaining edge pops
\* without reading.
C19_LabelsAsStated ==
    pc4 = "done" =>
        \A r \in 1..Len(pda.transitions) :
            LET t == pda.transitions[r]
            IN  IF t[1] = pda.start THEN RowLabels(t) = {<<"e", "e", "$">>}
                ELSE IF t[2] \in Range(pda.accept) THEN RowLabels(t) = {<<"e", "$", "e">>}
                ELSE IF t[1] = t[2] /\ t[1] = body_state
                THEN RowLabels(t) = {<<a, "e", "e">> : a \in Range(pda.alphabet)}
                ELSE /\ RowLabels(t) # {}
                     /\ \A l \in RowLabels(t) : l[1] = "e" /\ l[2] # "e"

\* C19 amended: an edge leaving the start state pushes '$'; otherwise an edge
\* entering an accept state pops '$'; otherwise an edge between two different
\* states reads nothing and leaves the stack alone; otherwise a self-loop on
\* state 2 reads each alphabet symbol and pushes it; every remaining self-loop
\* reads each alphabet symbol and pops it.
C19_LabelsAsWritten ==
    pc4 = "done" =>
        \A r \in 1..Len(pda.transitions) :
            LET t == pda.transitions[r]
            IN  IF t[1] = pda.start THEN RowLabels(t) = {<<"e", "e", "$">>}
                ELSE IF t[2] \in Range(pda.accept) THEN RowLabels(t) = {<<"e", "$", "e">>}
                ELSE IF t[1] # t[2] THEN RowLabels(t) = {<<"e", "e", "e">>}
                ELSE IF t[1] = body_state
                THEN RowLabels(t) = {<<a, "e", a>> : a \in Range(pda.alphabet)}
                ELSE RowLabels(t) = {<<a, a, "e">> : a \in Range(pda.alphabet)}

\* a written graph with a self-loop on state 2 and an edge out of the start
\* state into an accept state
C19_Witness ==
    /\ pc4 = "done"
    /\ pda.start # body_state
    /\ body_state \notin Range(pda.accept)
    /\ \E r \in 1..Len(pda.transitions) :
          pda.transitions[r] = <<body_state, body_state>>
    /\ \E r \in 1..Len(pda.transitions) :
          /\ pda.transitions[r][1] = pda.start
          /\ pda.transitions[r][2] \in Range(pda.accept)

\* ------------------------------------------------- the simplifier's output
\* no '(' and no ')' in the chain
Flat(chain) == \A i \in 1..Len(chain) : chain[i] \notin {"(", ")"}

\* a flat sequence wrapped in one outer "(" ... ")*"
FlatStarWrapped(chain) ==
    /\ Len(chain) >= 3
    /\ chain[1] = "("
    /\ chain[Len(chain) - 1] = ")"
    /\ chain[Len(chain)] = "*"
    /\ Flat(SubSeq(chain, 2, Len(chain) - 2))

\* simplify_expressions has returned to main
Simplified ==
    pc \in {"get_states", "get_transitions", "get_accept_states",
            "get_transition_symbols", "write_graphviz", "read_input",
            "check_input_alphabet", "check_string", "done"}
        \/ (pc = "exit" /\ stdout # <<>>)

\* C20: every chain of the simplified list of a guard-accepted expression is
\* free of parentheses or is a parenthesis-free sequence wrapped in exactly one
\* outer "(" ... ")*".
C20_SimplifiedChainsAreFlat ==
    Simplified =>
        \A i \in 1..Len(expressions) :
            Flat(expressions[i]) \/ FlatStarWrapped(expressions[i])

\* ------------------------------------------------ the builder's state set
\* C21: for every guard-accepted expression the state set of get_states is
\* exactly 1..n, and the start state, every accept state and both endpoints
\* of every transition are members of it.
C21_BuilderStaysInStateSet ==
    Built =>
        /\ states = [k \in 1..Len(states) |-> k]
        /\ start \in Range(states)
        /\ \A k \in 1..Len(accept_states) : accept_states[k] \in Range(states)
        /\ \A k \in 1..Len(transitions) :
               /\ transitions[k][1] \in Range(states)
               /\ transitions[k][2] \in Range(states)

\* --------------------------------------------------- the transition labels
\* every character of every symbol list
Labels == UNION {Range(transition_symbols[k]) : k \in 1..Len(transition_symbols)}

\* C22: every symbol of every symbol list of get_transition_symbols is a
\* member of the alphabet of get_alphabet; no transition is labelled with
\* '(', ')', '*', '|' or a space.
C22_LabelsAreAlphabetSymbols ==
    Built =>
        /\ Labels \subseteq Range(alphabet)
        /\ Labels \cap {"(", ")", "*", "|", " "} = {}

\* ---------------------------------------------------------- the unwrap rule
\* the chain without its first '(' and without the ')' that matches it
WithoutFirstPair(chain) ==
    LET close == RefClose(chain, 1, 0)
    IN  SubSeq(chain, 2, close - 1) \o SubSeq(chain, close + 1, Len(chain))

\* C23: for a chain that begins with '(' and ends with ')',
\* simplify_parentheses_end_parentheses removes exactly the first '(' and the
\* ')' that matches it, retains every other character, and returns
\* simplify_expressions(parse_original(interior)); a chain such as
\* "(a|b)(b|a)" loses no other parenthesis.
C23_UnwrapRemovesOnePair ==
    pc = "simplify_expressions" =>
        \A k \in 1..Len(expressions) :
            IsParenEndParen(expressions[k]) =>
                /\ StripFrom(expressions[k], 1, <<>>, <<>>)
                       = WithoutFirstPair(expressions[k])
                /\ simplify_parentheses_end_parentheses(expressions[k])
                       = simplify_expressions(
                             parse_original(WithoutFirstPair(expressions[k])))

\* ----------------------------------------------------- the star-unwrap rule
\* the chain is one group followed by its star: the first '(' is closed by
\* the ')' before the final '*'
IsStarGroup(chain) ==
    IsStarParen(chain) /\ RefClose(chain, 1, 0) = Len(chain) - 1

\* the pieces of e between its '|' outside every group, in order
RECURSIVE RefPieces(_)
RefPieces(e) ==
    IF RefBars(e) = {} THEN <<e>>
    ELSE LET bar == CHOOSE i \in RefBars(e) : \A j \in RefBars(e) : i <= j
         IN  <<SubSeq(e, 1, bar - 1)>> \o RefPieces(SubSeq(e, bar + 1, Len(e)))

\* the group of a star group, without its parentheses
GroupOf(chain) == SubSeq(chain, 2, Len(chain) - 2)

\* C24: for a chain "(p1|...|pk)*" the scan of simplify_star_parentheses
\* yields the top-level pieces of the group (an inner ')' does not end the
\* strip and a '|' inside a nested group does not split a piece), and when
\* no piece contains a parenthesis simplify_star_parentheses returns exactly
\* "(p1)*", ..., "(pk)*" in order.
C24_StarUnwrap ==
    pc = "simplify_expressions" =>
        \A k \in 1..Len(expressions) :
            IsStarGroup(expressions[k]) =>
                LET pieces == RefPieces(GroupOf(expressions[k]))
                IN  /\ StarSplitFrom(expressions[k], 1, <<>>, <<>>, <<>>) = pieces
                    /\ Flat(GroupOf(expressions[k])) =>
                           simplify_star_parentheses(expressions[k])
                               = [j \in 1..Len(pieces) |->
                                     <<"(">> \o pieces[j] \o <<")", "*">>]

\* a star group whose nested group holds a '|' has been parsed
C24_Witness ==
    /\ pc = "simplify_expressions"
    /\ \E k \in 1..Len(expressions) :
           /\ IsStarGroup(expressions[k])
           /\ ~Flat(GroupOf(expressions[k]))
           /\ \E i \in 1..Len(GroupOf(expressions[k])) :
                  /\ GroupOf(expressions[k])[i] = "|"
                  /\ i \notin RefBars(GroupOf(expressions[k]))

\* -------------------------------------------- entries of the two sequences
\* the number of entries a chain contributes to transitions and to
\* transition_symbols: one per character of a plain chain, one per character
\* after the opening '(' that is no parenthesis of a star-wrapped chain
EntryCount(chain) ==
    IF IsStarParen(chain)
    THEN Cardinality({j \in 2..Len(chain) : chain[j] \notin {"(", ")"}})
    ELSE Len(chain)

\* the number of entries of the chains before the k-th
RECURSIVE EntryOffset(_)
EntryOffset(k) ==
    IF k = 1 THEN 0 ELSE EntryOffset(k - 1) + EntryCount(expressions[k - 1])

\* the index of the entry of character i of the k-th chain, a star-wrapped one
StarEntry(k, i) ==
    EntryOffset(k)
        + Cardinality({j \in 2..i : expressions[k][j] \notin {"(", ")"}})

\* the positions of the interior '*' of a star-wrapped chain
InteriorStars(chain) == {i \in 3..(Len(chain) - 1) : chain[i] = "*"}

\* C25: in a star-wrapped chain an interior '*' emits a self-loop on the
\* immediately preceding state whose symbol list is exactly the single
\* character preceding that '*', however many chains the expression has.
C25_InteriorStarLoopsOnPrecedingSymbol ==
    Built =>
        \A k \in 1..Len(expressions) :
            IsStarParen(expressions[k]) =>
                \A i \in InteriorStars(expressions[k]) :
                    LET e == StarEntry(k, i)
                    IN  /\ transitions[e][1] = transitions[e][2]
                        /\ transitions[e][1] = transitions[e - 1][2]
                        /\ transition_symbols[e] = <<expressions[k][i - 1]>>

\* ------------------------------------------------- the parallel sequences
\* the positions of a chain that emit an entry
EntryChars(chain) ==
    IF IsStarParen(chain)
    THEN {j \in 2..Len(chain) : chain[j] \notin {"(", ")"}}
    ELSE 1..Len(chain)

\* the index of the entry of character i of the k-th chain
EntryOf(k, i) ==
    EntryOffset(k) + Cardinality({j \in EntryChars(expressions[k]) : j <= i})

\* the number of symbols of the symbol lists before the i-th
RECURSIVE SymbolsBefore(_)
SymbolsBefore(i) ==
    IF i = 1 THEN 0 ELSE SymbolsBefore(i - 1) + Len(transition_symbols[i - 1])

\* the edge statements of the exporter's output, in order
EdgeStatements == SelectSeq(stdout, LAMBDA line : line[1] = "edge")

\* C26: get_transitions and get_transition_symbols return sequences of the
\* same length; the i-th symbol list is non-empty and comes from the same
\* character of the same chain as the i-th transition (a forward edge with
\* that character as its only symbol unless the character is '*'); the
\* exporter emits exactly one edge statement per (transition, symbol) pair,
\* in transition order.
C26_ParallelSequences ==
    Built =>
        /\ Len(transitions) = Len(transition_symbols)
        /\ \A i \in 1..Len(transition_symbols) : Len(transition_symbols[i]) >= 1
        /\ \A k \in 1..Len(expressions) :
               \A i \in EntryChars(expressions[k]) :
                   LET e == EntryOf(k, i)
                   IN  /\ e \in 1..Len(transitions)
                       /\ (transitions[e][2] > transitions[e][1])
                              <=> (expressions[k][i] # "*")
                       /\ expressions[k][i] # "*" =>
                              transition_symbols[e] = <<expressions[k][i]>>
        /\ pc # "write_graphviz" =>
               /\ Len(EdgeStatements) = SymbolsBefore(Len(transition_symbols) + 1)
               /\ \A i \in 1..Len(transition_symbols) :
                      \A n \in 1..Len(transition_symbols[i]) :
                          EdgeStatements[SymbolsBefore(i) + n]
                              = <<"edge", transitions[i][1], transitions[i][2],
                                  transition_symbols[i][n]>>

\* the graph of an expression of several chains, one of them star-wrapped,
\* has been written and a symbol list holds more than one symbol
C26_Witness ==
    /\ Built
    /\ pc # "write_graphviz"
    /\ Len(expressions) > 1
    /\ \E k \in 1..Len(expressions) : IsStarParen(expressions[k])
    /\ \E i \in 1..Len(transition_symbols) : Len(transition_symbols[i]) > 1

\* ------------------------------------------ termination of the simplifier
\* the number of '(' and ')' of a chain, and of a list of chains
ParenCount(chain) == Cardinality({i \in 1..Len(chain) : chain[i] \in {"(", ")"}})

RECURSIVE TotalParens(_)
TotalParens(chains) ==
    IF chains = <<>> THEN 0
    ELSE ParenCount(Head(chains)) + TotalParens(Tail(chains))

\* the chains simplify_expressions is called with when it rewrites chain
\* (<<>> when the chain is retained)
RecursiveArgument(chain) ==
    IF IsParenEndParen(chain)
    THEN parse_original(StripFrom(chain, 1, <<>>, <<>>))
    ELSE IF IsStarParen(chain)
    THEN StarSplitFrom(chain, 1, <<>>, <<>>, <<>>)
    ELSE <<>>

Rewritten(chain) == IsParenEndParen(chain) \/ IsStarParen(chain)

\* every recursive call below simplify_expressions(chains) receives chains
\* with fewer parenthesis characters than the chain being rewritten
RECURSIVE CallsDecrease(_)
CallsDecrease(chains) ==
    \A k \in 1..Len(chains) :
        Rewritten(chains[k]) =>
            /\ TotalParens(RecursiveArgument(chains[k])) < ParenCount(chains[k])
            /\ CallsDecrease(RecursiveArgument(chains[k]))

\* C27: for every guard-accepted expression every recursive call of the
\* simplifier receives chains whose total number of parenthesis characters
\* is strictly smaller than that of the chain being rewritten, so the
\* mutual recursion terminates.
C27_SimplifierCallsDecrease ==
    pc = "simplify_expressions" => CallsDecrease(expressions)

\* simplify_star_parentheses is about to call simplify_expressions with a
\* piece that simplify_parentheses_end_parentheses rewrites in turn
C27_Witness ==
    /\ pc = "simplify_expressions"
    /\ \E k \in 1..Len(expressions) :
           /\ IsStarParen(expressions[k])
           /\ ~IsParenEndParen(expressions[k])
           /\ \E j \in 1..Len(RecursiveArgument(expressions[k])) :
                  /\ RecursiveArgument(expressions[k])[j] # <<>>
                  /\ IsParenEndParen(RecursiveArgument(expressions[k])[j])

\* ---------------------------------------------- the simplifier's symbols
\* the number of occurrences of c in a list of chains
RECURSIVE Occurrences(_, _)
Occurrences(chains, c) ==
    IF chains = <<>> THEN 0
    ELSE Cardinality({i \in 1..Len(Head(chains)) : Head(chains)[i] = c})
            + Occurrences(Tail(chains), c)

\* C28: every occurrence of an alphabet symbol in the chains given to
\* simplify_expressions appears in the chains it returns: each alphabet
\* symbol occurs as often in the simplified list as in the parsed list.
C28_SimplifierKeepsSymbols ==
    Simplified =>
        \A c \in Range(get_alphabet(reg_ex)) :
            Occurrences(expressions, c) = Occurrences(parse_original(reg_ex), c)

\* ------------------------------------------- the comma loop of program 1
\* the while loop is at a pass that neither removes a comma nor sets f: the
\* pass leaves node_names, n and f as they are, and so does every later pass
CommaLoopStuck ==
    /\ pc1 = "remove_commas"
    /\ f1 = FALSE
    /\ FirstComma(node_names, n1) = 0
    /\ n1 = 0

\* C29: the comma-stripping loop terminates for every argument string, an
\* argument of commas only included: every pass removes a comma or sets f,
\* so the loop never reaches a pass that changes nothing while f is false.
C29_CommaLoopTerminates == ~CommaLoopStuck

====
